---- MODULE Spec2Model ----
(***************************************************************************)
(* A model of FileService (src/unnamed/part_003), the virtual filesystem   *)
(* service: the provider registry, the watcher multiplexer, the write      *)
(* pipeline with its per-resource write queue, and the entry checks of the *)
(* mutating operations.                                                    *)
(*                                                                         *)
(* The service runs on one thread; an async method is a chain of steps,    *)
(* one step per stretch of code between two awaits.  Every step is one     *)
(* action; steps of different calls interleave freely.                     *)
(*                                                                         *)
(* toDisposable(fn) is taken to return an object whose dispose() runs fn   *)
(* every time it is called: the closures handed to it in part_003 carry no *)
(* guard of their own, and lifecycle.ts is not among the sources.          *)
(***************************************************************************)
EXTENDS Integers, Sequences, FiniteSets, TLC

\* ------------------------------------------------------------------ bounds
\* registerProvider calls that succeed in one run
MaxRegs == 2
\* dispose() calls on one handle (a registration handle, a watch handle)
MaxDisposals == 2
\* promises a listener joins to one activation event
MaxJoiners == 1
\* watch calls in one run
MaxWatches == 2

\* ------------------------------------------------------------- vocabulary
NoProvider == "none"
Providers == {"P1", "P2"}
Schemes == {"mem", "src"}

\* A URI is [scheme, abs, segs]: abs says that the path starts with "/",
\* segs are the path's segments ("mem:///q" is ["mem", TRUE, <<"q">>]).
Uri(scheme, abs, segs) == [scheme |-> scheme, abs |-> abs, segs |-> segs]

\* resources.isAbsolutePath: the path is non-empty and starts with "/"
isAbsolutePath(resource) == resource.abs

\* String.toLowerCase on a path segment of the model's alphabet
toLowerCase(seg) ==
    CASE seg = "Q" -> "q"
      [] seg = "W" -> "w"
      [] OTHER -> seg

\* Array.join(): the elements with a "," between them; a string is the
\* sequence of its pieces.
RECURSIVE join(_)
join(strings) ==
    IF strings = <<>> THEN <<>>
    ELSE IF Len(strings) = 1 THEN strings[1]
    ELSE strings[1] \o <<",">> \o join(Tail(strings))

VARIABLES
    provider,       \* FileService.provider: scheme -> provider
    registrations,  \* the handles registerProvider returned
    regEvents,      \* onDidChangeFileSystemProviderRegistrations: the number
                    \* of events fired and the last one
    lastReg,        \* the last registerProvider call and whether it threw
    forwarded,      \* the events of providers and, per service emitter that
                    \* forwards them, the number of events it fired
    capabilities,   \* each provider's capability set, as it reports it now
    ops,            \* the service calls made so far, each with its position
    activeWatchers, \* FileService.activeWatchers: watch key -> watcher record
    watchers,       \* the {disposable, count} records made, one per provider.watch
    watches,        \* the watch() calls made, each with its closure's state
    serviceDisposed,\* FileService.dispose() has run
    files,          \* what each provider stores: <<provider, path>> -> file
    handles,        \* the handles provider.open returned, with their close calls
    writeQueues,    \* FileService.writeQueues: map key -> queue
    queues,         \* the Queue objects made by ensureWriteQueue
    enqueued,       \* the calls handed to a write queue, in the order of queue()
    onAfterOperation, \* the emitter: the number of events fired and the last one
    faults          \* provider calls and streams that have failed so far

regVars == <<provider, registrations, regEvents, lastReg, forwarded>>
ioVars == <<files, handles, writeQueues, queues, enqueued, onAfterOperation, faults>>
fsVars == <<capabilities, ioVars>>
opVars == <<ops>>
watchVars == <<activeWatchers, watchers, watches, serviceDisposed>>
vars == <<provider, registrations, regEvents, lastReg, forwarded, capabilities, ops,
          activeWatchers, watchers, watches, serviceDisposed,
          files, handles, writeQueues, queues, enqueued, onAfterOperation, faults>>

\* A file as a provider stores it; type "none" is a path with nothing at it.
NoFile == [type |-> "none", content |-> <<>>, mtime |-> 0]
Paths ==
    {<<"q">>, <<"Q">>, <<"s">>, <<"d">>}
        \cup {<<x, y>> : x \in {"s", "d"}, y \in {"q", "s", "d"}}
        \cup {<<x, "d", "q">> : x \in {"s", "d"}}
NoFiles == [f \in Providers \X Paths |-> NoFile]

\* The service as constructed (no call, no watcher), with the providers
\* `bound` registered: one handle per bound scheme.
Registered(bound) ==
    LET RECURSIVE handlesOf(_)
        handlesOf(schemes) ==
            IF schemes = {} THEN <<>>
            ELSE LET s == CHOOSE x \in schemes : TRUE
                 IN <<[scheme |-> s, provider |-> bound[s], disposals |-> 0]>>
                        \o handlesOf(schemes \ {s})
    IN handlesOf({s \in Schemes : bound[s] # NoProvider})

InitService(bound) ==
    /\ provider = bound
    /\ registrations = Registered(bound)
    /\ regEvents = [fired |-> Len(Registered(bound)), last |-> "none"]
    /\ lastReg = [scheme |-> "mem", provider |-> NoProvider, threw |-> FALSE]
    /\ forwarded = [emitted |-> 0, onFileChanges |-> 0,
                    onDidChangeFileSystemProviderCapabilities |-> 0, onError |-> 0]
    /\ ops = <<>>
    /\ activeWatchers = [k \in {} |-> 0]
    /\ watchers = <<>>
    /\ watches = <<>>
    /\ serviceDisposed = FALSE
    /\ handles = <<>>
    /\ writeQueues = [k \in {} |-> 0]
    /\ queues = <<>>
    /\ enqueued = <<>>
    /\ onAfterOperation = [fired |-> 0, last |-> "none"]
    /\ faults = 0

\* ---------------------------------------------------------------- registry

\* Emitter.fire, as far as the model observes it: one more event, and which.
fire(emitter, event) == [fired |-> emitter.fired + 1, last |-> event]

\* registerProvider without its has(scheme) check: a second registration
\* replaces the first.
registerProvider_rebinds(scheme, p) ==
    /\ Len(registrations) < MaxRegs
    /\ provider' = [provider EXCEPT ![scheme] = p]
    /\ regEvents' = fire(regEvents,
           [added |-> TRUE, scheme |-> scheme, provider |-> p])
    /\ registrations' = Append(registrations,
           [scheme |-> scheme, provider |-> p, disposals |-> 0])
    /\ lastReg' = [scheme |-> scheme, provider |-> p, threw |-> FALSE]
    /\ UNCHANGED <<forwarded, fsVars, opVars, watchVars>>

\* registerProvider(scheme, provider): throws when the scheme is bound,
\* else binds it, fires {added: true} and returns a handle.
registerProvider(scheme, p) ==
    /\ Len(registrations) < MaxRegs
    /\ IF provider[scheme] # NoProvider
         THEN /\ lastReg' = [scheme |-> scheme, provider |-> p, threw |-> TRUE]
              /\ UNCHANGED <<provider, registrations, regEvents>>
         ELSE /\ provider' = [provider EXCEPT ![scheme] = p]
              /\ regEvents' = fire(regEvents,
                     [added |-> TRUE, scheme |-> scheme, provider |-> p])
              /\ registrations' = Append(registrations,
                     [scheme |-> scheme, provider |-> p, disposals |-> 0])
              /\ lastReg' = [scheme |-> scheme, provider |-> p, threw |-> FALSE]
    /\ UNCHANGED <<forwarded, fsVars, opVars, watchVars>>

\* The handle's dispose: fires {added: false}, deletes the scheme's binding,
\* disposes the event subscriptions.
disposeRegistration(h) ==
    /\ h \in 1..Len(registrations)
    /\ registrations[h].disposals < MaxDisposals
    /\ regEvents' = fire(regEvents,
           [added |-> FALSE, scheme |-> registrations[h].scheme,
            provider |-> registrations[h].provider])
    /\ provider' = [provider EXCEPT ![registrations[h].scheme] = NoProvider]
    /\ registrations' = [registrations EXCEPT ![h].disposals = @ + 1]
    /\ UNCHANGED <<lastReg, forwarded, fsVars, opVars, watchVars>>

\* provider events in one run
MaxEvents == 1

\* The emitters of a provider and the service's emitter each is forwarded
\* to by the listeners registerProvider adds.
Forwarding ==
    [onDidChangeFile |-> "onFileChanges",
     onDidChangeCapabilities |-> "onDidChangeFileSystemProviderCapabilities",
     onDidErrorOccur |-> "onError"]

\* The listeners registerProvider added to provider p's emitters and that
\* are not disposed: those of the handles not disposed yet.
Listening(p) ==
    {h \in 1..Len(registrations) :
        registrations[h].provider = p /\ registrations[h].disposals = 0}

\* Provider p fires one of its events: each listener of registerProvider
\* fires the service's emitter.
providerFires(p, event) ==
    /\ forwarded.emitted < MaxEvents
    /\ forwarded' = [forwarded EXCEPT !.emitted = @ + 1,
                                      ![Forwarding[event]] = @ + Cardinality(Listening(p))]
    /\ UNCHANGED <<provider, registrations, regEvents, lastReg, fsVars, opVars, watchVars>>

\* ------------------------------------------------------------ service calls

\* A call's record.  pc is the await it is suspended at ("done" when settled).
NewOp(kind, resource) ==
    [kind |-> kind, resource |-> resource, pc |-> "start", result |-> "none",
     provider |-> NoProvider, joined |-> 0, pendingJoin |-> 0,
     activations |-> 0, has |-> FALSE]

\* activateProvider(scheme): fires onWillActivateFileSystemProvider, where
\* listeners join `joined` promises; returns at once when the scheme is bound
\* and otherwise awaits the joined promises.
\* activateProvider that never awaits what was joined
activateProvider_returnsAtOnce(op, joined) ==
    [op EXCEPT !.joined = joined, !.pendingJoin = joined,
               !.activations = @ + 1,
               !.has = provider[op.resource.scheme] # NoProvider,
               !.pc = "lookup"]

\* activations counts the activation events fired for the call, and has is
\* this.provider.has(scheme) as read after the event.
activateProvider(op, joined) ==
    [op EXCEPT !.joined = joined, !.pendingJoin = joined,
               !.activations = @ + 1,
               !.has = provider[op.resource.scheme] # NoProvider,
               !.pc = IF provider[op.resource.scheme] # NoProvider \/ joined = 0
                        THEN "lookup" ELSE "joining"]

\* withProvider, up to its await: the path must be absolute, then activation.
withProviderCall(op, joined) ==
    IF ~isAbsolutePath(op.resource)
      THEN [op EXCEPT !.pc = "done", !.result = "FILE_INVALID_PATH"]
      ELSE activateProvider(op, joined)

\* withProvider without its assertion: whatever the map holds is returned.
withProviderLookup_unasserted(op) ==
    [op EXCEPT !.pc = "resolved", !.provider = provider[op.resource.scheme]]

\* withProvider, after its await: the provider bound to the scheme, or the
\* ENOPRO error.
withProviderLookup(op) ==
    IF provider[op.resource.scheme] = NoProvider
      THEN [op EXCEPT !.pc = "done", !.result = "ENOPRO"]
      ELSE [op EXCEPT !.pc = "resolved", !.provider = provider[op.resource.scheme]]

\* A caller invokes withProvider(resource); the registry on its own follows
\* one such call at a time and forgets a call that has settled.
CallWithProvider(resource, joined) ==
    /\ \A i \in 1..Len(ops) : ops[i].pc = "done"
    /\ ops' = <<withProviderCall(NewOp("withProvider", resource), joined)>>
    /\ UNCHANGED <<regVars, fsVars, watchVars>>

\* One of the promises joined to the activation event settles.
JoinerSettles(i) ==
    /\ i \in 1..Len(ops)
    /\ ops[i].pendingJoin > 0
    /\ ops' = [ops EXCEPT ![i].pendingJoin = @ - 1,
                          ![i].pc = IF ops[i].pc = "joining" /\ ops[i].pendingJoin = 1
                                      THEN "lookup" ELSE @]
    /\ UNCHANGED <<regVars, fsVars, watchVars>>

\* The await in withProvider returns.
WithProviderReturns(i) ==
    /\ i \in 1..Len(ops)
    /\ ops[i].pc = "lookup"
    /\ ops[i].kind = "withProvider"
    /\ LET op == withProviderLookup(ops[i])
       IN ops' = [ops EXCEPT ![i] =
              IF op.pc = "resolved" THEN [op EXCEPT !.pc = "done", !.result = "ok"] ELSE op]
    /\ UNCHANGED <<regVars, fsVars, watchVars>>

\* ------------------------------------------------------------ file watching
PathCaseSensitive == "PathCaseSensitive"

\* toMapKey(provider, resource): the resource's string, in lower case when
\* the provider lacks PathCaseSensitive.
toMapKey(p, resource) ==
    IF PathCaseSensitive \in capabilities[p]
      THEN resource
      ELSE [resource EXCEPT !.segs = [n \in DOMAIN resource.segs |-> toLowerCase(resource.segs[n])]]

\* toWatchKey without the options: one key per resource.
toWatchKey_resourceOnly(p, resource, options) ==
    <<toMapKey(p, resource)>>

\* toWatchKey(provider, resource, options): the map key, String(recursive)
\* and excludes.join(), joined.
toWatchKey(p, resource, options) ==
    <<toMapKey(p, resource), options.recursive, join(options.excludes)>>

\* watch(resource, options), its synchronous part: watchDisposed is false,
\* watchDisposable is the disposable that sets it, doWatch is started and
\* the handle is returned.
watch(resource, options) ==
    /\ Len(watches) < MaxWatches
    /\ watches' = Append(watches,
           [resource |-> resource, options |-> options, pc |-> "doWatch",
            watchDisposed |-> FALSE, watchDisposable |-> "flag",
            key |-> <<>>, watcher |-> 0, disposals |-> 0, unrefs |-> 0])
    /\ UNCHANGED <<regVars, fsVars, opVars, activeWatchers, watchers, serviceDisposed>>

\* doWatch after its await of withProvider: the key's record is looked up, or
\* made with provider.watch and stored; its count goes up by one.  Without a
\* provider doWatch rejects and watch() logs the error.
doWatch(h) ==
    /\ h \in 1..Len(watches)
    /\ watches[h].pc = "doWatch"
    /\ LET p == provider[watches[h].resource.scheme] IN
       IF p = NoProvider
         THEN /\ watches' = [watches EXCEPT ![h].pc = "failed"]
              /\ UNCHANGED <<activeWatchers, watchers>>
         ELSE LET key == toWatchKey(p, watches[h].resource, watches[h].options)
                  known == key \in DOMAIN activeWatchers
                  w == IF known THEN activeWatchers[key] ELSE Len(watchers) + 1
                  made == IF known THEN watchers
                          ELSE Append(watchers, [key |-> key, count |-> 0, disposed |-> 0,
                                                 released |-> FALSE, provider |-> p])
              IN /\ watchers' = [made EXCEPT ![w].count = @ + 1]
                 /\ activeWatchers' = IF known THEN activeWatchers
                                      ELSE (key :> w) @@ activeWatchers
                 /\ watches' = [watches EXCEPT ![h].pc = "then", ![h].key = key,
                                               ![h].watcher = w]
    /\ UNCHANGED <<regVars, fsVars, opVars, serviceDisposed>>

\* The disposable doWatch returns: the count goes down by one; at zero the
\* provider's disposable is disposed and the key is deleted from the table.
unrefWatchers(w) ==
    [watchers EXCEPT ![w].count = @ - 1,
                     ![w].disposed = IF watchers[w].count = 1 THEN @ + 1 ELSE @,
                     ![w].released = IF watchers[w].count = 1 THEN TRUE ELSE @]

unrefActiveWatchers(w, key) ==
    IF watchers[w].count = 1
      THEN [k \in DOMAIN activeWatchers \ {key} |-> activeWatchers[k]]
      ELSE activeWatchers

\* The callback without its watchDisposed check: the disposable is always
\* wired in.
watchThen_alwaysWires(h) ==
    /\ h \in 1..Len(watches)
    /\ watches[h].pc = "then"
    /\ watches' = [watches EXCEPT ![h].pc = "wired", ![h].watchDisposable = "inner"]
    /\ UNCHANGED <<watchers, activeWatchers>>
    /\ UNCHANGED <<regVars, fsVars, opVars, serviceDisposed>>

\* watch(): the callback on doWatch's promise.  A handle disposed meanwhile
\* has the new disposable disposed at once, else it is wired in.
watchThen(h) ==
    /\ h \in 1..Len(watches)
    /\ watches[h].pc = "then"
    /\ IF watches[h].watchDisposed
         THEN /\ watchers' = unrefWatchers(watches[h].watcher)
              /\ activeWatchers' = unrefActiveWatchers(watches[h].watcher, watches[h].key)
              /\ watches' = [watches EXCEPT ![h].pc = "wired", ![h].unrefs = @ + 1]
         ELSE /\ watches' = [watches EXCEPT ![h].pc = "wired", ![h].watchDisposable = "inner"]
              /\ UNCHANGED <<watchers, activeWatchers>>
    /\ UNCHANGED <<regVars, fsVars, opVars, serviceDisposed>>

\* The handle watch() returned is disposed: dispose(watchDisposable).
disposeWatch(h) ==
    /\ h \in 1..Len(watches)
    /\ watches[h].disposals < MaxDisposals
    /\ IF watches[h].watchDisposable = "flag"
         THEN /\ watches' = [watches EXCEPT ![h].disposals = @ + 1, ![h].watchDisposed = TRUE]
              /\ UNCHANGED <<watchers, activeWatchers>>
         ELSE /\ watchers' = unrefWatchers(watches[h].watcher)
              /\ activeWatchers' = unrefActiveWatchers(watches[h].watcher, watches[h].key)
              /\ watches' = [watches EXCEPT ![h].disposals = @ + 1, ![h].unrefs = @ + 1]
    /\ UNCHANGED <<regVars, fsVars, opVars, serviceDisposed>>

\* FileService.dispose(): every record of the table has its disposable
\* disposed, and the table is cleared.
dispose ==
    /\ ~serviceDisposed
    /\ serviceDisposed' = TRUE
    /\ watchers' = [w \in DOMAIN watchers |->
           IF \E k \in DOMAIN activeWatchers : activeWatchers[k] = w
             THEN [watchers[w] EXCEPT !.disposed = @ + 1] ELSE watchers[w]]
    /\ activeWatchers' = [k \in {} |-> 0]
    /\ UNCHANGED <<regVars, fsVars, opVars, watches>>

\* ------------------------------------------------- the watchers on their own
WatchUris == {Uri("mem", TRUE, <<"w">>), Uri("mem", TRUE, <<"W">>)}
WatchOptions == {[recursive |-> TRUE, excludes |-> << <<"a">>, <<"b">> >>]}

InitWatch ==
    /\ InitService([s \in Schemes |-> IF s = "mem" THEN "P1" ELSE NoProvider])
    /\ capabilities \in {[p \in Providers |-> {}], [p \in Providers |-> {PathCaseSensitive}]}
    /\ files = NoFiles

NextWatch ==
    \/ \E r \in WatchUris, o \in WatchOptions : watch(r, o)
    \/ \E h \in 1..MaxWatches : doWatch(h)
    \/ \E h \in 1..MaxWatches : watchThen(h)
    \/ \E h \in 1..MaxWatches : disposeWatch(h)
    \/ dispose

SpecWatch == InitWatch /\ [][NextWatch]_vars

\* The watch calls whose doWatch has attached them to watcher record w.
HandlesOf(w) == {h \in 1..Len(watches) : watches[h].watcher = w}

\* C4: watch calls that share a watch key and whose handles are alive
\* together share one provider.watch (one watcher record); and once every
\* handle of a key is disposed, each underlying disposable made for the key
\* has been disposed exactly once and the table holds no record for the key.
C4_SharedKeySharesOneWatch ==
    /\ \A a, b \in 1..Len(watches) :
          ( /\ watches[a].watcher # 0 /\ watches[b].watcher # 0
            /\ watches[a].key = watches[b].key
            /\ watches[a].disposals = 0 /\ watches[b].disposals = 0 )
              => watches[a].watcher = watches[b].watcher
    /\ \A w \in 1..Len(watchers) :
          ( /\ \A h \in 1..Len(watches) : watches[h].pc \in {"wired", "failed"}
            /\ \A h \in 1..Len(watches) :
                  watches[h].key = watchers[w].key => watches[h].disposals > 0 )
              => /\ watchers[w].disposed = 1
                 /\ watchers[w].key \notin DOMAIN activeWatchers

\* C5: a watch handle decrements the count of its record at most once, however
\* often and whenever it is disposed, and the count never disposes the
\* underlying watch while a handle attached to the record is undisposed.
C5_HandleUnrefsOnce ==
    /\ \A h \in 1..Len(watches) : watches[h].unrefs <= 1
    /\ \A w \in 1..Len(watchers) :
          watchers[w].released => \A h \in HandlesOf(w) : watches[h].disposals > 0

\* C6: a handle disposed before doWatch resolved has, once the callback on
\* doWatch's promise has run, released the count it added (exactly once);
\* and no underlying watch stays undisposed when every handle attached to it
\* is disposed and has had its callback run.
C6_LateWatchIsReleased ==
    /\ \A h \in 1..Len(watches) :
          (watches[h].pc = "wired" /\ watches[h].watchDisposable = "flag")
              => watches[h].unrefs = 1
    /\ \A w \in 1..Len(watchers) :
          watchers[w].disposed = 0
              => \E h \in HandlesOf(w) : watches[h].pc = "then" \/ watches[h].disposals = 0

\* C6's case: a handle was disposed while doWatch was pending, doWatch then
\* made the watcher record, and the callback released it: the underlying
\* watch is disposed and the key is gone from the table.
C6_Witness ==
    \E h \in 1..Len(watches) :
        /\ watches[h].pc = "wired"
        /\ watches[h].watchDisposable = "flag"
        /\ watches[h].unrefs = 1
        /\ watchers[watches[h].watcher].disposed = 1
        /\ watches[h].key \notin DOMAIN activeWatchers

\* ------------------------------------------------- the registry on its own
RegUris == {Uri("mem", TRUE, <<"q">>), Uri("mem", FALSE, <<"q">>)}

InitReg ==
    /\ InitService([s \in Schemes |-> NoProvider])
    /\ capabilities = [p \in Providers |-> {}]
    /\ files = NoFiles

NextReg ==
    \/ \E s \in Schemes, p \in Providers : registerProvider(s, p)
    \/ \E h \in 1..MaxRegs : disposeRegistration(h)
    \/ \E r \in RegUris, j \in 0..MaxJoiners : CallWithProvider(r, j)
    \/ JoinerSettles(1)
    \/ WithProviderReturns(1)

SpecReg == InitReg /\ [][NextReg]_vars

\* C7: a registerProvider call for a scheme that is bound throws, and the
\* step leaves the binding (the earlier provider stays), the handles and the
\* registration events as they were.
C7_RegisterBoundSchemeFails ==
    [][\A s \in Schemes, p \in Providers :
          (registerProvider(s, p) /\ provider[s] # NoProvider)
              => /\ lastReg'.threw
                 /\ provider' = provider
                 /\ regEvents' = regEvents
                 /\ registrations' = registrations]_vars

\* C7's case: a registration of another provider for a bound scheme threw.
C7_Witness ==
    /\ lastReg.threw
    /\ provider[lastReg.scheme] # NoProvider
    /\ provider[lastReg.scheme] # lastReg.provider

\* Every handle registerProvider returned for the scheme has been disposed.
Unregistered(scheme) ==
    \A h \in 1..Len(registrations) :
        registrations[h].scheme = scheme => registrations[h].disposals > 0

FileReadWrite == "FileReadWrite"
FileOpenReadWriteClose == "FileOpenReadWriteClose"
FileReadStream == "FileReadStream"
FileFolderCopy == "FileFolderCopy"
Readonly == "Readonly"
Trash == "Trash"

hasReadWriteCapability(p) == FileReadWrite \in capabilities[p]
hasOpenReadWriteCloseCapability(p) == FileOpenReadWriteClose \in capabilities[p]
hasFileReadStreamCapability(p) == FileReadStream \in capabilities[p]
hasFileFolderCopyCapability(p) == FileFolderCopy \in capabilities[p]

\* The file a provider finds at a resource: a provider without
\* PathCaseSensitive does not tell "Q" from "q".
fileOf(p, resource) == <<p, toMapKey(p, resource).segs>>

\* provider.stat(resource): FileNotFound (type "none") or {type, mtime, size}
NoStat == [type |-> "none", mtime |-> 0, size |-> 0]
providerStat(fs, p, resource) ==
    LET f == fs[fileOf(p, resource)]
    IN IF f.type = "none" THEN NoStat
       ELSE [type |-> f.type, mtime |-> f.mtime, size |-> Len(f.content)]

\* The provider's clock: every write to a file moves its mtime on.
tick(mtime) == mtime + 1000

\* provider.open(resource, {create: true}): the file is there and empty
providerOpenCreate(fs, p, resource) ==
    [fs EXCEPT ![fileOf(p, resource)] =
        [type |-> "file", content |-> <<>>, mtime |-> tick(@.mtime)]]

\* provider.write(handle, pos, data, offset, length): length bytes of data
\* from offset on go to the file at pos
providerWrite(fs, file, pos, data, offset, length) ==
    LET old == fs[file].content
        bytes == SubSeq(data, offset + 1, offset + length)
        kept == IF pos + length < Len(old)
                  THEN SubSeq(old, pos + length + 1, Len(old)) ELSE <<>>
    IN [fs EXCEPT ![file].content = SubSeq(old, 1, pos) \o bytes \o kept]

\* provider.writeFile(resource, content, {create: true, overwrite: true})
providerWriteFile(fs, p, resource, content) ==
    [fs EXCEPT ![fileOf(p, resource)] =
        [type |-> "file", content |-> content, mtime |-> tick(@.mtime)]]

\* resources.dirname, basename and joinPath on the model's paths: the root
\* is its own dirname.
dirname(resource) ==
    [resource EXCEPT !.segs = IF @ = <<>> THEN <<>> ELSE SubSeq(@, 1, Len(@) - 1)]
basename(resource) == resource.segs[Len(resource.segs)]
joinPath(resource, name) == [resource EXCEPT !.segs = Append(@, name)]

\* path a is path b or lies below it
isBelow(a, b) == Len(b) <= Len(a) /\ SubSeq(a, 1, Len(b)) = b

\* The folder a path lies in is there: the root always is.
parentIsThere(fs, file) ==
    \/ Len(file[2]) = 1
    \/ fs[<<file[1], SubSeq(file[2], 1, Len(file[2]) - 1)>>].type = "dir"

\* provider.mkdir(resource) succeeds: nothing is at the resource (else
\* FileExists) and its parent is a folder (else FileNotFound).
canMkdir(fs, p, resource) ==
    fs[fileOf(p, resource)].type = "none" /\ parentIsThere(fs, fileOf(p, resource))

\* provider.mkdir(resource)
providerMkdir(fs, p, resource) ==
    [fs EXCEPT ![fileOf(p, resource)] = [type |-> "dir", content |-> <<>>, mtime |-> 1000]]

\* provider.delete(resource, {recursive: true}): the resource and all below
providerDelete(fs, p, resource) ==
    LET gone == fileOf(p, resource) IN
    [f \in DOMAIN fs |->
        IF f[1] = p /\ isBelow(f[2], gone[2]) THEN NoFile ELSE fs[f]]

\* provider.readdir(resource), as resolve() hands it on in stat.children:
\* the names in the folder, each with its type
providerReaddir(fs, p, resource) ==
    LET at == fileOf(p, resource) IN
    {[name |-> f[2][Len(f[2])], isDirectory |-> fs[f].type = "dir"] :
        f \in {g \in DOMAIN fs : /\ g[1] = p
                                  /\ Len(g[2]) = Len(at[2]) + 1
                                  /\ isBelow(g[2], at[2])
                                  /\ fs[g].type # "none"}}

\* provider.rename(source, target, {overwrite}) and provider.copy(source,
\* target, {overwrite}): what is at the source and below it is at the
\* target, and for a rename no longer at the source.
providerTransfer(fs, p, source, target, keep) ==
    LET from == fileOf(p, source)[2]
        to == fileOf(p, target)[2]
        cleared == [f \in DOMAIN fs |->
                      IF f[1] = p /\ (isBelow(f[2], to) \/ (~keep /\ isBelow(f[2], from)))
                        THEN NoFile ELSE fs[f]]
    IN [f \in DOMAIN fs |->
          IF f[1] = p /\ isBelow(f[2], to)
                /\ <<p, from \o SubSeq(f[2], Len(to) + 1, Len(f[2]))>> \in DOMAIN fs
            THEN LET src == fs[<<p, from \o SubSeq(f[2], Len(to) + 1, Len(f[2]))>>]
                 IN IF src.type = "none" THEN cleared[f] ELSE src
            ELSE cleared[f]]

\* VSBuffer.concat: the chunks' bytes in one buffer
RECURSIVE concat(_)
concat(chunks) ==
    IF chunks = <<>> THEN <<>> ELSE chunks[1] \o concat(Tail(chunks))

\* Number.toString(radix): the digits, most significant first
RECURSIVE toString(_, _)
toString(n, radix) ==
    IF n < radix THEN <<n>> ELSE toString(n \div radix, radix) \o <<n % radix>>

\* etag(stat): mtime.toString(29) + size.toString(31)
etag(stat) == toString(stat.mtime, 29) \o toString(stat.size, 31)

\* --------------------------------------------------------- the calls' records
\* An option the caller left out: no number as mtime, no string as etag.
Undefined == 0 - 1
typeofNumber(x) == x # Undefined
typeofString(s) == s # <<Undefined>>

NoOptions == [given |-> FALSE, mtime |-> 0, etag |-> <<>>]
NoInput == [kind |-> "none", chunks |-> <<>>]
NoKey == Uri("none", FALSE, <<>>)

\* A call of writeFile, copy, move, del or createFolder, or of doCopyFile:
\* the arguments, the locals that live across its awaits, and what it did.
NewCall(kind, source, resource, input, options) ==
    NewOp(kind, resource) @@
    [source |-> source, input |-> input, options |-> options,
     sourceProvider |-> NoProvider, stat |-> NoStat,
     task |-> "none", key |-> NoKey, queue |-> 0,
     handle |-> 0, sourceHandle |-> 0,
     posInFile |-> 0, posInBuffer |-> 0, consumedChunks |-> 0, buffer |-> <<>>,
     length |-> 0, totalBytesWritten |-> 0,
     error |-> "none", calls |-> 0, writes |-> 0, events |-> 0,
     readonlyAtCall |-> FALSE, readonlyAtCheck |-> FALSE,
     directory |-> NoKey, directoriesToCreate |-> <<>>,
     overwrite |-> FALSE, recursive |-> FALSE, mode |-> kind, nested |-> FALSE, deleting |-> "none",
     children |-> {}, parent |-> 0, pending |-> 0, log |-> <<>>,
     fired |-> <<>>, targetExisted |-> FALSE, useTrash |-> FALSE,
     create |-> FALSE,
     preferUnbuffered |-> FALSE, validation |-> "none", cancelled |-> FALSE,
     path |-> "none", reading |-> "none",
     bufferOrReadableOrStream |-> input,
     stream |-> [flowing |-> FALSE, data |-> <<>>, ended |-> FALSE, listening |-> FALSE],
     handler |-> "idle", inFlight |-> 0, mkdirs |-> <<>>,
     fileStat |-> {}, denied |-> [readdir |-> {}, stat |-> {}]]

\* The state the steps of a call work on.
World ==
    [ops |-> ops, files |-> files, handles |-> handles,
     writeQueues |-> writeQueues, queues |-> queues, enqueued |-> enqueued,
     onAfterOperation |-> onAfterOperation]

Becomes(w) ==
    /\ ops' = w.ops
    /\ files' = w.files
    /\ handles' = w.handles
    /\ writeQueues' = w.writeQueues
    /\ queues' = w.queues
    /\ enqueued' = w.enqueued
    /\ onAfterOperation' = w.onAfterOperation

\* Call i issues a provider call and awaits it: pc names the call awaited.
issue(w, i, call) ==
    [w EXCEPT !.ops[i].pc = call, !.ops[i].calls = @ + 1]

\* Call i settles.
settle(w, i, result) ==
    [w EXCEPT !.ops[i].pc = "done", !.ops[i].result = result]

\* ------------------------------------------------------------- write queue
\* bytes of the buffer the buffered pipe allocates (64 * 1024 in the source)
BUFFER_SIZE == 2
\* writeFile and doCopyFile calls in one run
MaxWrites == 2
\* provider calls and streams that fail in one run
MaxFaults == 1

\* The queued task of call i runs up to its first await: doWriteBuffered's
\* task opens the target, doWriteUnbufferedQueued calls provider.writeFile,
\* doPipeBufferedQueued opens the source, doPipeUnbufferedQueued reads the
\* source, doPipeUnbufferedToBufferedQueued opens the target.
startTask(w, i) ==
    LET task == w.ops[i].task IN
    CASE task = "doWriteBuffered" -> issue(w, i, "open")
      [] task = "doWriteUnbufferedQueued" -> issue(w, i, "writeFile")
      [] task = "doPipeBufferedQueued" -> issue(w, i, "openSource")
      [] task = "doPipeUnbufferedQueued" -> issue(w, i, "readFile")
      [] task = "doPipeUnbufferedToBufferedQueued" -> issue(w, i, "open")

\* Queue.consume (a Limiter of one): while tasks are outstanding and none
\* runs, the first outstanding one is taken and started.
consume(w, q) ==
    IF w.queues[q].outstanding # <<>> /\ w.queues[q].runningPromises < 1
      THEN startTask([w EXCEPT !.queues[q].outstanding = Tail(@),
                               !.queues[q].runningPromises = @ + 1],
                     Head(w.queues[q].outstanding))
      ELSE w

\* A Queue whose every settled task fires onFinished
consumed_finishesEachTime(w, q) ==
    LET w1 == [w EXCEPT !.queues[q].runningPromises = @ - 1,
                        !.queues[q].finished = @ + 1,
                        !.writeQueues =
                            IF w.queues[q].finished = 0
                              THEN [k \in DOMAIN @ \ {w.queues[q].key} |-> @[k]]
                              ELSE @]
    IN consume(w1, q)

\* Queue.consumed, run when a task has settled: one task fewer runs; the next
\* one is started, or onFinished fires.  The listener ensureWriteQueue put on
\* the first onFinished deletes the queue's key from writeQueues.
consumed(w, q) ==
    LET w1 == [w EXCEPT !.queues[q].runningPromises = @ - 1] IN
    IF w1.queues[q].outstanding # <<>>
      THEN consume(w1, q)
      ELSE [w1 EXCEPT !.queues[q].finished = @ + 1,
                      !.writeQueues =
                          IF w.queues[q].finished = 0
                            THEN [k \in DOMAIN @ \ {w.queues[q].key} |-> @[k]]
                            ELSE @]

NewQueue(key) ==
    [key |-> key, outstanding |-> <<>>, runningPromises |-> 0, finished |-> 0]

\* ensureWriteQueue that makes a new queue for every call
ensureWriteQueue_fresh(w, key) ==
    [w EXCEPT !.queues = Append(@, NewQueue(key)),
              !.writeQueues = (key :> (Len(w.queues) + 1)) @@ @]

\* ensureWriteQueue(provider, resource): the queue stored under the map key;
\* when there is none a new Queue is stored there.
ensureWriteQueue(w, key) ==
    IF key \in DOMAIN w.writeQueues THEN w
    ELSE [w EXCEPT !.queues = Append(@, NewQueue(key)),
                   !.writeQueues = (key :> (Len(w.queues) + 1)) @@ @]

\* ensureWriteQueue(provider, resource).queue(task): the task joins the
\* outstanding ones of the key's queue, and consume() runs.
queue(w, i, task) ==
    LET key == toMapKey(w.ops[i].provider, w.ops[i].resource)
        w1 == ensureWriteQueue(w, key)
        q == w1.writeQueues[key]
    IN consume([w1 EXCEPT !.ops[i].task = task, !.ops[i].key = key,
                          !.ops[i].queue = q, !.ops[i].pc = "queued",
                          !.queues[q].outstanding = Append(@, i),
                          !.enqueued = Append(@, i)], q)

\* provider.open returned a handle to call i.
openHandle(w, i, p, resource, field) ==
    LET h == Len(w.handles) + 1
        w1 == [w EXCEPT !.handles = Append(@, [file |-> fileOf(p, resource), op |-> i,
                                               closeCalls |-> 0])]
    IN IF field = "sourceHandle" THEN [w1 EXCEPT !.ops[i].sourceHandle = h]
       ELSE [w1 EXCEPT !.ops[i].handle = h]

CloseCalled(hs, closing) ==
    [h \in DOMAIN hs |->
        IF h \in closing THEN [hs[h] EXCEPT !.closeCalls = @ + 1] ELSE hs[h]]

\* A finally block that closes the target handle alone
closeHandles_targetOnly(w, i) ==
    LET closing == {w.ops[i].handle} \ {0}
    IN [w EXCEPT !.handles = CloseCalled(@, closing),
                 !.ops[i].pc = "close", !.ops[i].calls = @ + Cardinality(closing)]

\* The finally blocks of the queued tasks: provider.close is called for
\* every handle the task holds, and awaited.
closeHandles(w, i) ==
    LET closing == {w.ops[i].handle, w.ops[i].sourceHandle} \ {0}
    IN [w EXCEPT !.handles = CloseCalled(@, closing),
                 !.ops[i].pc = "close", !.ops[i].calls = @ + Cardinality(closing)]

\* The task of call i threw: the catch keeps the error, the finally closes.
fail(w, i) ==
    closeHandles([w EXCEPT !.ops[i].error = "FILE_OTHER_ERROR"], i)

\* del(resource, {recursive: true}) as doMoveCopy calls it for its target
\* or its source, up to del's await of withProvider.
startDel(w, i, which) ==
    [w EXCEPT !.ops[i].deleting = which, !.ops[i].pc = "delLookup"]

\* doMoveCopy returns to move or copy, which resolve the target; the
\* doMoveCopy that move called across two providers has its inner copy
\* return first, and then deletes the source.
doMoveCopyReturns(w, i) ==
    IF w.ops[i].nested THEN startDel(w, i, "source") ELSE issue(w, i, "resolve")

\* finish with a Promise.all that takes a rejected promise for a
\* fulfilled one
RECURSIVE finish_ignoresErrors(_, _, _)
finish_ignoresErrors(w, i, result) ==
    LET w1 == settle(w, i, result)
        p == w.ops[i].parent IN
    IF p = 0 \/ w1.ops[p].pc # "children" THEN w1
    ELSE IF w1.ops[p].pending > 1 THEN [w1 EXCEPT !.ops[p].pending = @ - 1]
    ELSE IF w1.ops[p].kind \in {"move", "copy"}
      THEN doMoveCopyReturns([w1 EXCEPT !.ops[p].pending = 0], p)
    ELSE finish_ignoresErrors([w1 EXCEPT !.ops[p].pending = 0], p, "ok")

\* Call i settles with a result.  A doCopyFile or doCopyFolder that
\* doCopyFolder started is one of the promises of its Promise.all: the
\* first error rejects the folder's copy, and the last child to succeed
\* lets it return.
RECURSIVE finish(_, _, _)
finish(w, i, result) ==
    LET w1 == settle(w, i, result)
        p == w.ops[i].parent IN
    IF p = 0 \/ w1.ops[p].pc # "children" THEN w1
    ELSE IF result # "ok" THEN finish(w1, p, result)
    ELSE IF w1.ops[p].pending > 1 THEN [w1 EXCEPT !.ops[p].pending = @ - 1]
    ELSE IF w1.ops[p].kind \in {"move", "copy"}
      THEN doMoveCopyReturns([w1 EXCEPT !.ops[p].pending = 0], p)
    ELSE finish([w1 EXCEPT !.ops[p].pending = 0], p, "ok")

\* doCopyFile or doCopyFolder of call i has returned.
copied(w, i) ==
    IF w.ops[i].kind \in {"move", "copy"} THEN doMoveCopyReturns(w, i)
    ELSE finish(w, i, "ok")

\* The task of call i has settled: the queue's consumed() runs, and the
\* call goes on; an error is thrown on, writeFile resolves the target, and
\* doCopyFile returns.
taskSettled(w, i) ==
    LET w1 == consumed(w, w.ops[i].queue)
        op == w1.ops[i]
    IN IF op.error # "none" THEN finish(w1, i, op.error)
       ELSE IF op.kind = "writeFile" THEN issue(w1, i, "resolve")
       ELSE copied(w1, i)

\* doWriteBuffer(provider, handle, buffer, length, posInFile, posInBuffer):
\* provider.write is called until length bytes are written; nothing is
\* called for no bytes.
doWriteBuffer(w, i, buffer, length, posInBuffer) ==
    issue([w EXCEPT !.ops[i].buffer = buffer, !.ops[i].length = length,
                    !.ops[i].posInBuffer = posInBuffer,
                    !.ops[i].totalBytesWritten = 0], i, "write")

\* doWriteReadableBufferedQueued: the next chunk is read from the readable
\* and written; when the readable is at its end the finally closes.
RECURSIVE doWriteReadableBufferedQueued(_, _)
doWriteReadableBufferedQueued(w, i) ==
    LET op == w.ops[i] IN
    IF op.consumedChunks = Len(op.input.chunks) THEN closeHandles(w, i)
    ELSE LET chunk == op.input.chunks[op.consumedChunks + 1]
             w1 == [w EXCEPT !.ops[i].consumedChunks = @ + 1]
         IN IF Len(chunk) = 0 THEN doWriteReadableBufferedQueued(w1, i)
            ELSE doWriteBuffer(w1, i, chunk, Len(chunk), 0)

\* ----------------------------------------------------------------- writeFile
quiet == <<regVars, watchVars, capabilities>>

\* A provider call or a stream fails (ok is false) at most MaxFaults times.
Faulted(ok) ==
    /\ ok \/ faults < MaxFaults
    /\ faults' = IF ok THEN faults ELSE faults + 1

\* The provider bound to the resource's scheme reports Readonly now.
ReadonlyNow(resource) ==
    /\ provider[resource.scheme] # NoProvider
    /\ Readonly \in capabilities[provider[resource.scheme]]

\* withWriteProvider, after its await of withProvider: the provider must
\* have FileOpenReadWriteClose or FileReadWrite, else a plain Error.
withWriteProvider(op) ==
    LET found == withProviderLookup(op) IN
    IF found.pc = "done" THEN found
    ELSE IF hasOpenReadWriteCloseCapability(found.provider)
              \/ hasReadWriteCapability(found.provider) THEN found
    ELSE [found EXCEPT !.pc = "done", !.result = "Error"]

\* withReadProvider, after its await of withProvider
withReadProvider(op) ==
    LET found == withProviderLookup(op) IN
    IF found.pc = "done" THEN found
    ELSE IF hasOpenReadWriteCloseCapability(found.provider)
              \/ hasReadWriteCapability(found.provider)
              \/ hasFileReadStreamCapability(found.provider) THEN found
    ELSE [found EXCEPT !.pc = "done", !.result = "Error"]

\* throwIfFileSystemIsReadonly that lets every provider through
throwIfFileSystemIsReadonly_never(op) ==
    IF op.pc = "done" THEN op
    ELSE [op EXCEPT !.readonlyAtCheck = Readonly \in capabilities[op.provider]]

\* throwIfFileSystemIsReadonly(provider, resource), applied to what the
\* provider lookup gave: FILE_PERMISSION_DENIED when the provider's
\* capabilities include Readonly.  readonlyAtCheck keeps what it saw.
throwIfFileSystemIsReadonly(op) ==
    IF op.pc = "done" THEN op
    ELSE IF Readonly \in capabilities[op.provider]
      THEN [op EXCEPT !.pc = "done", !.result = "FILE_PERMISSION_DENIED",
                      !.readonlyAtCheck = TRUE]
    ELSE op

\* writeFile(resource, bufferOrReadableOrStream, options), up to its first
\* await (in withProvider).
writeFile(resource, input, options) ==
    /\ Len(ops) < MaxWrites
    /\ ops' = Append(ops, withProviderCall(
           [NewCall("writeFile", resource, resource, input, options)
               EXCEPT !.readonlyAtCall = ReadonlyNow(resource)], 0))
    /\ UNCHANGED <<quiet, ioVars>>

\* createFile(resource, bufferOrReadableOrStream, options): with overwrite
\* it calls writeFile at once, without it exists(resource) is awaited first.
createFile(resource, input, overwrite) ==
    /\ Len(ops) < MaxWrites
    /\ LET op == [NewCall("writeFile", resource, resource, input, NoOptions)
                     EXCEPT !.create = TRUE, !.overwrite = overwrite,
                            !.readonlyAtCall = ReadonlyNow(resource)]
       IN ops' = Append(ops, IF overwrite THEN withProviderCall(op, 0)
                             ELSE [op EXCEPT !.pc = "createExists", !.calls = @ + 1])
    /\ UNCHANGED <<quiet, ioVars>>

\* exists(resource) returns to createFile, or throws what withProvider
\* throws: a resource that is there is a FILE_MODIFIED_SINCE, else
\* writeFile is called.
createExistsReturns(i) ==
    /\ i \in 1..Len(ops)
    /\ ops[i].pc = "createExists"
    /\ LET op == ops[i]
           found == withProviderLookup(withProviderCall(op, 0))
       IN ops' = [ops EXCEPT ![i] =
              IF found.pc = "done" THEN found
              ELSE IF providerStat(files, found.provider, op.resource).type # "none"
                THEN [op EXCEPT !.pc = "done", !.result = "FILE_MODIFIED_SINCE"]
              ELSE [withProviderCall(op, 0)
                       EXCEPT !.readonlyAtCall = ReadonlyNow(op.resource)]]
    /\ UNCHANGED <<quiet, ioVars>>

\* writeFile after its await of withWriteProvider: the readonly check, then
\* validateWriteFile calls provider.stat.  Nothing was joined to the
\* activation, so these continuations run in the order of the calls.
writeFileResolved(i) ==
    /\ i \in 1..Len(ops)
    /\ ops[i].kind = "writeFile"
    /\ ops[i].pc = "lookup"
    /\ \A j \in 1..(i - 1) : ~(ops[j].kind = "writeFile" /\ ops[j].pc = "lookup")
    /\ LET op == throwIfFileSystemIsReadonly(withWriteProvider(ops[i]))
       IN ops' = [ops EXCEPT ![i] =
              IF op.pc = "done" THEN op
              ELSE [op EXCEPT !.pc = "stat", !.calls = @ + 1]]
    /\ UNCHANGED <<quiet, ioVars>>

ETAG_DISABLED == <<>>

\* validateWriteFile comparing with the etag of the file as it is now
validateWriteFile_currentEtag(op, stat) ==
    IF stat.type = "none" THEN [op EXCEPT !.pc = "mkdirp", !.stat = stat]
    ELSE IF stat.type = "dir"
      THEN [op EXCEPT !.pc = "done", !.result = "FILE_IS_DIRECTORY", !.stat = stat]
    ELSE IF /\ op.options.given
            /\ typeofNumber(op.options.mtime)
            /\ typeofString(op.options.etag)
            /\ op.options.etag # ETAG_DISABLED
            /\ op.options.mtime < stat.mtime
            /\ op.options.etag # etag(stat)
      THEN [op EXCEPT !.pc = "done", !.result = "FILE_MODIFIED_SINCE", !.stat = stat]
    ELSE [op EXCEPT !.pc = "validated", !.stat = stat]

\* validateWriteFile that takes every advance of the mtime for a change
validateWriteFile_mtimeOnly(op, stat) ==
    IF stat.type = "none" THEN [op EXCEPT !.pc = "mkdirp", !.stat = stat]
    ELSE IF stat.type = "dir"
      THEN [op EXCEPT !.pc = "done", !.result = "FILE_IS_DIRECTORY", !.stat = stat]
    ELSE IF /\ op.options.given
            /\ typeofNumber(op.options.mtime)
            /\ op.options.mtime < stat.mtime
      THEN [op EXCEPT !.pc = "done", !.result = "FILE_MODIFIED_SINCE", !.stat = stat]
    ELSE [op EXCEPT !.pc = "validated", !.stat = stat]

\* validateWriteFile, after provider.stat: undefined for a file that is not
\* there (writeFile then awaits mkdirp of the parent); FILE_IS_DIRECTORY for
\* a directory; FILE_MODIFIED_SINCE when options carry mtime and etag, the
\* mtime is older than the file's and the etag is not the one of
\* (options.mtime, the file's size).
validateWriteFile(op, stat) ==
    IF stat.type = "none" THEN [op EXCEPT !.pc = "mkdirp", !.stat = stat]
    ELSE IF stat.type = "dir"
      THEN [op EXCEPT !.pc = "done", !.result = "FILE_IS_DIRECTORY", !.stat = stat]
    ELSE IF /\ op.options.given
            /\ typeofNumber(op.options.mtime)
            /\ typeofString(op.options.etag)
            /\ op.options.etag # ETAG_DISABLED
            /\ op.options.mtime < stat.mtime
            /\ op.options.etag # etag([mtime |-> op.options.mtime, size |-> stat.size])
      THEN [op EXCEPT !.pc = "done", !.result = "FILE_MODIFIED_SINCE", !.stat = stat]
    ELSE [op EXCEPT !.pc = "validated", !.stat = stat]

\* consumeReadableWithLimit / consumeStreamWithLimit with a limit of 3: one
\* buffer of all the data when there are 1 to 3 chunks, else the data as
\* it was.  A stream that ends without a chunk gives the empty buffer, a
\* readable without a chunk stays a readable.
consumeWithLimit(input) ==
    IF /\ Len(input.chunks) <= 3
       /\ Len(input.chunks) > 0 \/ input.kind = "stream"
      THEN [kind |-> "buffer", chunks |-> <<concat(input.chunks)>>]
      ELSE input

\* writeFile that writes unbuffered whatever the provider can do
doWrite_unbuffered(w, i) ==
    queue([w EXCEPT !.ops[i].buffer = concat(w.ops[i].input.chunks)], i,
          "doWriteUnbufferedQueued")

\* writeFile, its last branch: unbuffered when the provider lacks
\* FileOpenReadWriteClose or has FileReadWrite and the data is a buffer,
\* else buffered.
doWrite(w, i) ==
    LET op == w.ops[i] IN
    IF \/ ~hasOpenReadWriteCloseCapability(op.provider)
       \/ (hasReadWriteCapability(op.provider) /\ op.input.kind = "buffer")
      THEN queue([w EXCEPT !.ops[i].buffer = concat(op.input.chunks)], i,
                 "doWriteUnbufferedQueued")
      ELSE queue(w, i, "doWriteBuffered")

\* writeFile once the file is validated and its parent is there: data that
\* is no buffer is consumed up to 3 chunks when the provider has
\* FileReadWrite (a stream is awaited), then the write is queued.
writeFileDispatch(w, i) ==
    LET op == w.ops[i] IN
    IF hasReadWriteCapability(op.provider) /\ op.input.kind # "buffer"
      THEN IF op.input.kind = "stream"
             THEN [w EXCEPT !.ops[i].pc = "consumeStream"]
             ELSE doWrite([w EXCEPT !.ops[i].input = consumeWithLimit(op.input)], i)
      ELSE doWrite(w, i)

\* A mkdirp that does not walk up: provider.mkdir(directory) at once.
mkdirp_noWalk(w, i, directory) ==
    IF directory.segs = <<>> THEN [w EXCEPT !.ops[i].pc = "mkdirpDone"]
    ELSE issue([w EXCEPT !.ops[i].directory = directory,
                         !.ops[i].directoriesToCreate = <<>>,
                         !.ops[i].mkdirs = Append(@, directory.segs),
                         !.ops[i].log = Append(@, "mkdir")], i, "mkdir")

\* mkdirp(provider, directory), up to its first await: the root is its own
\* dirname, so for it mkdirp stats nothing and makes nothing (pc
\* "mkdirpDone", and the caller goes on at once); any other directory is
\* stat'ed.
mkdirp(w, i, directory) ==
    IF directory.segs = <<>> THEN [w EXCEPT !.ops[i].pc = "mkdirpDone"]
    ELSE issue([w EXCEPT !.ops[i].directory = directory,
                         !.ops[i].directoriesToCreate = <<>>], i, "mkdirpStat")

\* mkdirp's second loop: the directories found missing are made from the
\* topmost down, each provider.mkdir awaited.
mkdirpCreate(w, i) ==
    LET op == w.ops[i]
        n == Len(op.directoriesToCreate) IN
    IF n = 0 THEN [w EXCEPT !.ops[i].pc = "mkdirpDone"]
    ELSE issue([w EXCEPT !.ops[i].directory = joinPath(op.directory, op.directoriesToCreate[n]),
                         !.ops[i].directoriesToCreate = SubSeq(@, 1, n - 1),
                         !.ops[i].mkdirs =
                             Append(@, joinPath(op.directory, op.directoriesToCreate[n]).segs),
                         !.ops[i].log = Append(@, "mkdir")], i, "mkdir")

\* provider.stat returns to validateWriteFile; writeFile goes on to mkdirp
\* when the file is not there, and to the write.
validateWriteFileReturns(i) ==
    /\ i \in 1..Len(ops)
    /\ ops[i].kind = "writeFile"
    /\ ops[i].pc = "stat"
    /\ LET op == validateWriteFile(ops[i],
                     providerStat(files, ops[i].provider, ops[i].resource))
           w == [World EXCEPT !.ops[i] = op]
           w1 == mkdirp(w, i, dirname(op.resource))
       IN Becomes(IF op.pc = "validated" THEN writeFileDispatch(w, i)
                  ELSE IF op.pc = "mkdirp"
                    THEN IF w1.ops[i].pc = "mkdirpDone" THEN writeFileDispatch(w1, i) ELSE w1
                  ELSE w)
    /\ UNCHANGED <<quiet, faults>>

\* consumeStreamWithLimit returns, or rejects with the stream's error.
consumeStreamReturns(i, ok) ==
    /\ i \in 1..Len(ops)
    /\ ops[i].pc = "consumeStream"
    /\ Faulted(ok)
    /\ Becomes(IF ok
                 THEN doWrite([World EXCEPT !.ops[i].input = consumeWithLimit(@)], i)
                 ELSE settle(World, i, "FILE_OTHER_ERROR"))
    /\ UNCHANGED quiet

\* ----------------------------------------------------------- queued tasks
Min(a, b) == IF a < b THEN a ELSE b

\* What a task does once doWriteBuffer has written all of its bytes:
\* doWriteBuffered moves on in the file and takes the next chunk (a stream
\* is resumed); doPipeBufferedQueued moves on in the file and in its buffer
\* and reads again; doPipeUnbufferedToBufferedQueued is through.
bufferWritten(w, i) ==
    LET op == w.ops[i]
        w1 == [w EXCEPT !.ops[i].posInFile = @ + op.length] IN
    CASE op.task = "doWriteBuffered" ->
            IF op.input.kind = "stream" THEN [w1 EXCEPT !.ops[i].pc = "stream"]
            ELSE doWriteReadableBufferedQueued(w1, i)
      [] op.task = "doPipeBufferedQueued" ->
            issue([w1 EXCEPT !.ops[i].posInBuffer =
                       IF op.posInBuffer + op.length = BUFFER_SIZE
                         THEN 0 ELSE op.posInBuffer + op.length], i, "read")
      [] op.task = "doPipeUnbufferedToBufferedQueued" -> closeHandles(w, i)

\* provider.open(target, {create: true}) returns a handle or throws.
\* doWriteBuffered and doPipeUnbufferedToBufferedQueued open outside their
\* try; doPipeBufferedQueued opens inside it, with the source handle held.
openReturns(i, ok) ==
    /\ i \in 1..Len(ops)
    /\ ops[i].pc = "open"
    /\ Faulted(ok)
    /\ LET op == ops[i]
           w1 == openHandle(
                     [World EXCEPT !.files = providerOpenCreate(@, op.provider, op.resource)],
                     i, op.provider, op.resource, "handle")
       IN Becomes(
           IF ~ok
             THEN IF op.task = "doPipeBufferedQueued" THEN fail(World, i)
                  ELSE taskSettled([World EXCEPT !.ops[i].error = "FILE_OTHER_ERROR"], i)
             ELSE CASE op.task = "doWriteBuffered" ->
                          IF op.input.kind = "stream"
                            THEN [w1 EXCEPT !.ops[i].pc = "stream"]
                            ELSE doWriteReadableBufferedQueued(w1, i)
                    [] op.task = "doPipeUnbufferedToBufferedQueued" ->
                          issue(w1, i, "readFile")
                    [] op.task = "doPipeBufferedQueued" ->
                          issue([w1 EXCEPT !.ops[i].buffer = [n \in 1..BUFFER_SIZE |-> 0]],
                                i, "read"))
    /\ UNCHANGED quiet

\* provider.write returns the number of bytes it wrote (some of them, or
\* all), or throws; doWriteBuffer calls it again for the rest.
writeReturns(i, ok, bytesWritten) ==
    /\ i \in 1..Len(ops)
    /\ ops[i].pc = "write"
    /\ bytesWritten \in 1..(ops[i].length - ops[i].totalBytesWritten)
    /\ Faulted(ok)
    /\ LET op == ops[i]
           total == op.totalBytesWritten
           w1 == [World EXCEPT
                    !.files = providerWrite(@, handles[op.handle].file, op.posInFile + total,
                                  op.buffer, op.posInBuffer + total, bytesWritten),
                    !.ops[i].totalBytesWritten = total + bytesWritten,
                    !.ops[i].writes = @ + 1]
       IN Becomes(IF ~ok THEN fail(World, i)
                  ELSE IF total + bytesWritten < op.length THEN issue(w1, i, "write")
                  ELSE bufferWritten(w1, i))
    /\ UNCHANGED quiet

\* The stream hands doWriteStreamBufferedQueued its next chunk: the stream
\* is paused and the chunk is written.
streamData(i) ==
    /\ i \in 1..Len(ops)
    /\ ops[i].pc = "stream"
    /\ ops[i].consumedChunks < Len(ops[i].input.chunks)
    /\ LET chunk == ops[i].input.chunks[ops[i].consumedChunks + 1]
           w1 == [World EXCEPT !.ops[i].consumedChunks = @ + 1]
       IN Becomes(IF Len(chunk) = 0 THEN w1
                  ELSE doWriteBuffer(w1, i, chunk, Len(chunk), 0))
    /\ UNCHANGED <<quiet, faults>>

\* The stream ends: doWriteStreamBufferedQueued resolves, the finally closes.
streamEnd(i) ==
    /\ i \in 1..Len(ops)
    /\ ops[i].pc = "stream"
    /\ ops[i].consumedChunks = Len(ops[i].input.chunks)
    /\ Becomes(closeHandles(World, i))
    /\ UNCHANGED <<quiet, faults>>

\* The stream reports an error: doWriteStreamBufferedQueued rejects.
streamError(i) ==
    /\ i \in 1..Len(ops)
    /\ ops[i].pc = "stream"
    /\ Faulted(FALSE)
    /\ Becomes(fail(World, i))
    /\ UNCHANGED quiet

\* The provider.close calls of a finally block return (or one throws): the
\* task settles.
closeReturns(i, ok) ==
    /\ i \in 1..Len(ops)
    /\ ops[i].pc = "close"
    /\ ok \/ ops[i].handle # 0 \/ ops[i].sourceHandle # 0
    /\ Faulted(ok)
    /\ Becomes(taskSettled(
           IF ok THEN World ELSE [World EXCEPT !.ops[i].error = "FILE_OTHER_ERROR"], i))
    /\ UNCHANGED quiet

\* provider.writeFile(resource, buffer, {create: true, overwrite: true})
\* returns or throws: the task settles.
writeFileReturns(i, ok) ==
    /\ i \in 1..Len(ops)
    /\ ops[i].pc = "writeFile"
    /\ Faulted(ok)
    /\ LET op == ops[i] IN
       Becomes(taskSettled(
           IF ok THEN [World EXCEPT
                         !.files = providerWriteFile(@, op.provider, op.resource, op.buffer),
                         !.ops[i].writes = @ + 1]
           ELSE [World EXCEPT !.ops[i].error = "FILE_OTHER_ERROR"], i))
    /\ UNCHANGED quiet

\* The operation an onAfterOperation event of the call carries
FileOperation(op) ==
    CASE op.deleting # "none" -> "DELETE"
      [] op.kind = "move" -> IF op.nested THEN "COPY" ELSE "MOVE"
      [] op.kind = "copy" -> "COPY"
      [] OTHER -> "CREATE"

\* The resource del is at work on: the call's target, or the source of a
\* move across providers.
delResource(op) == IF op.deleting = "source" THEN op.source ELSE op.resource

\* fireAfterOperation that fires the event twice
fireAfterOperation_twice(w, i) ==
    [w EXCEPT !.onAfterOperation =
                 fire(fire(@, [operation |-> FileOperation(w.ops[i]),
                               resource |-> w.ops[i].source]),
                      [operation |-> FileOperation(w.ops[i]),
                       resource |-> w.ops[i].source]),
              !.ops[i].events = @ + 2,
              !.ops[i].fired = @ \o <<FileOperation(w.ops[i]), FileOperation(w.ops[i])>>]

\* The call fires onAfterOperation: del with the resource it deleted, the
\* others with their source.
fireAfterOperation(w, i) ==
    [w EXCEPT !.onAfterOperation =
                 fire(@, [operation |-> FileOperation(w.ops[i]),
                          resource |-> IF w.ops[i].deleting # "none"
                                         THEN delResource(w.ops[i]) ELSE w.ops[i].source]),
              !.ops[i].events = @ + 1,
              !.ops[i].fired = Append(@, FileOperation(w.ops[i]))]

\* this.resolve(resource, {resolveMetadata: true}) at the end of writeFile,
\* move, copy and createFolder returns, or fails with FILE_NOT_FOUND; all
\* but writeFile then fire onAfterOperation, and so does createFile when
\* its writeFile has returned.
resolveReturns(i) ==
    /\ i \in 1..Len(ops)
    /\ ops[i].pc = "resolve"
    /\ Becomes(
          IF providerStat(files, ops[i].provider, ops[i].resource).type = "none"
            THEN settle(World, i, "FILE_NOT_FOUND")
          ELSE IF ops[i].kind = "writeFile" /\ ~ops[i].create THEN settle(World, i, "ok")
          ELSE settle(fireAfterOperation(World, i), i, "ok"))
    /\ UNCHANGED <<quiet, faults>>

\* ------------------------------------------------------------------- pipes
\* doCopyFile(sourceProvider, source, targetProvider, target): the pipe that
\* fits the two providers' capabilities; none of them when a provider has
\* neither capability.
doCopyFileDispatch(w, i) ==
    LET sp == w.ops[i].sourceProvider
        tp == w.ops[i].provider IN
    IF hasOpenReadWriteCloseCapability(sp) /\ hasOpenReadWriteCloseCapability(tp)
      THEN queue(w, i, "doPipeBufferedQueued")
    ELSE IF hasOpenReadWriteCloseCapability(sp) /\ hasReadWriteCapability(tp)
      THEN issue(w, i, "readFileBuffered")
    ELSE IF hasReadWriteCapability(sp) /\ hasOpenReadWriteCloseCapability(tp)
      THEN queue(w, i, "doPipeUnbufferedToBufferedQueued")
    ELSE IF hasReadWriteCapability(sp) /\ hasReadWriteCapability(tp)
      THEN queue(w, i, "doPipeUnbufferedQueued")
    ELSE copied(w, i)

\* doCopyFile, as doMoveCopy and doCopyFolder call it with the providers of
\* source and target.
doCopyFile(source, target) ==
    /\ Len(ops) < MaxWrites
    /\ provider[source.scheme] # NoProvider
    /\ provider[target.scheme] # NoProvider
    /\ Becomes(doCopyFileDispatch(
           [World EXCEPT !.ops = Append(@,
               [NewCall("doCopyFile", source, target, NoInput, NoOptions)
                   EXCEPT !.provider = provider[target.scheme],
                          !.sourceProvider = provider[source.scheme]])],
           Len(ops) + 1))
    /\ UNCHANGED <<quiet, faults>>

\* doPipeBufferedQueued: sourceProvider.open(source, {create: false})
\* returns a handle, and the target is opened; or it throws.
openSourceReturns(i, ok) ==
    /\ i \in 1..Len(ops)
    /\ ops[i].pc = "openSource"
    /\ Faulted(ok)
    /\ Becomes(IF ok
                 THEN issue(openHandle(World, i, ops[i].sourceProvider, ops[i].source,
                                       "sourceHandle"), i, "open")
                 ELSE fail(World, i))
    /\ UNCHANGED quiet

\* The bytes sourceProvider.read can give call i: what the file has from
\* posInFile on, as far as the buffer has room from posInBuffer on.
readable(i) ==
    LET op == ops[i]
        content == files[handles[op.sourceHandle].file].content
        left == IF Len(content) > op.posInFile THEN Len(content) - op.posInFile ELSE 0
    IN Min(left, BUFFER_SIZE - op.posInBuffer)

\* doPipeBufferedQueued that fills its buffer from the start at every read
readSome_fromStart(i, ok, bytesRead) ==
    /\ i \in 1..Len(ops)
    /\ ops[i].pc = "read"
    /\ bytesRead \in (IF readable(i) = 0 THEN {0} ELSE 1..readable(i))
    /\ Faulted(ok)
    /\ LET op == ops[i]
           content == files[handles[op.sourceHandle].file].content
           buffer == [n \in 1..BUFFER_SIZE |->
                        IF n <= bytesRead THEN content[op.posInFile + n] ELSE op.buffer[n]]
       IN Becomes(IF ~ok THEN fail(World, i)
                  ELSE IF bytesRead = 0 THEN closeHandles(World, i)
                  ELSE doWriteBuffer(World, i, buffer, bytesRead, op.posInBuffer))
    /\ UNCHANGED quiet

\* doPipeBufferedQueued: sourceProvider.read returns bytesRead, having
\* filled the buffer from posInBuffer on with what the file has at
\* posInFile (at least one byte unless the file is at its end), and the
\* bytes read are written; no byte read ends the loop.
readSome(i, ok, bytesRead) ==
    /\ i \in 1..Len(ops)
    /\ ops[i].pc = "read"
    /\ bytesRead \in (IF readable(i) = 0 THEN {0} ELSE 1..readable(i))
    /\ Faulted(ok)
    /\ LET op == ops[i]
           content == files[handles[op.sourceHandle].file].content
           buffer == [n \in 1..BUFFER_SIZE |->
                        IF n > op.posInBuffer /\ n <= op.posInBuffer + bytesRead
                          THEN content[op.posInFile + n - op.posInBuffer]
                          ELSE op.buffer[n]]
       IN Becomes(IF ~ok THEN fail(World, i)
                  ELSE IF bytesRead = 0 THEN closeHandles(World, i)
                  ELSE doWriteBuffer(World, i, buffer, bytesRead, op.posInBuffer))
    /\ UNCHANGED quiet

\* sourceProvider.read gives all it can.
readReturns(i, ok) ==
    /\ i \in 1..Len(ops)
    /\ ops[i].pc = "read"
    /\ readSome(i, ok, readable(i))

\* sourceProvider.readFile(source) returns the file's bytes or throws:
\* doPipeUnbufferedQueued hands them to targetProvider.writeFile,
\* doPipeUnbufferedToBufferedQueued writes them into its handle.
readFileReturns(i, ok) ==
    /\ i \in 1..Len(ops)
    /\ ops[i].pc = "readFile"
    /\ Faulted(ok)
    /\ LET op == ops[i]
           content == files[fileOf(op.sourceProvider, op.source)].content
       IN Becomes(
           IF op.task = "doPipeUnbufferedQueued"
             THEN IF ok THEN issue([World EXCEPT !.ops[i].buffer = content], i, "writeFile")
                  ELSE taskSettled([World EXCEPT !.ops[i].error = "FILE_OTHER_ERROR"], i)
             ELSE IF ~ok THEN fail(World, i)
                  ELSE IF Len(content) = 0 THEN closeHandles(World, i)
                  ELSE doWriteBuffer(World, i, content, Len(content), 0))
    /\ UNCHANGED quiet

\* doPipeBufferedToUnbuffered: the source is read through a stream into one
\* buffer, and doWriteUnbuffered queues its write.
readFileBufferedReturns(i, ok) ==
    /\ i \in 1..Len(ops)
    /\ ops[i].pc = "readFileBuffered"
    /\ Faulted(ok)
    /\ Becomes(IF ok
                 THEN queue([World EXCEPT !.ops[i].buffer =
                                files[fileOf(ops[i].sourceProvider, ops[i].source)].content],
                            i, "doWriteUnbufferedQueued")
                 ELSE finish(World, i, "FILE_OTHER_ERROR"))
    /\ UNCHANGED quiet

\* ------------------------------------------------- the write pipeline alone
WriteUris == {Uri("mem", TRUE, <<"q">>), Uri("mem", TRUE, <<"Q">>)}
SourceUri == Uri("src", TRUE, <<"s">>)

\* What the i-th call writes: a buffer, a readable of two chunks, a stream of
\* one chunk, each of bytes that name the call.
WriteInputs(i) ==
    {[kind |-> "buffer", chunks |-> << <<i>> >>],
     [kind |-> "readable", chunks |-> << <<i>>, <<i, i>> >>],
     [kind |-> "stream", chunks |-> << <<i, i>> >>]}

TargetCapabilities ==
    {{FileReadWrite}, {FileOpenReadWriteClose}, {FileReadWrite, FileOpenReadWriteClose},
     {FileReadWrite, PathCaseSensitive}}
SourceCapabilities ==
    {{FileReadWrite, PathCaseSensitive}, {FileOpenReadWriteClose, PathCaseSensitive}}

OldFile == [type |-> "file", content |-> <<0, 0, 0, 0>>, mtime |-> 1000]
SourceFile == [type |-> "file", content |-> <<7, 8, 9>>, mtime |-> 1000]

\* The files of a run: src:///s is a file of three bytes, and `old` is at
\* mem:///q and mem:///Q.
FilesWith(old) ==
    [f \in Providers \X Paths |->
        IF f[1] = "P1" /\ f[2] \in {<<"q">>, <<"Q">>} THEN old
        ELSE IF f = <<"P2", <<"s">> >> THEN SourceFile
        ELSE NoFile]

\* mem is served by P1 and src by P2; nothing is at the targets yet.
InitWrite ==
    /\ InitService([s \in Schemes |-> IF s = "mem" THEN "P1" ELSE "P2"])
    /\ \E t \in TargetCapabilities, c \in SourceCapabilities :
          capabilities = [p \in Providers |-> IF p = "P1" THEN t ELSE c]
    /\ files = FilesWith(NoFile)

\* The steps of writeFile before the write is queued
StepsWriteFile(i) ==
    \/ writeFileResolved(i)
    \/ validateWriteFileReturns(i)

\* The steps of the queued tasks when no provider call fails and every
\* provider.write writes all it is given
StepsTask(i) ==
    \/ openReturns(i, TRUE)
    \/ writeReturns(i, TRUE, ops[i].length - ops[i].totalBytesWritten)
    \/ closeReturns(i, TRUE)
    \/ writeFileReturns(i, TRUE)
    \/ resolveReturns(i)
    \/ openSourceReturns(i, TRUE)
    \/ readReturns(i, TRUE)
    \/ readFileReturns(i, TRUE)
    \/ readFileBufferedReturns(i, TRUE)

\* The targets of the next call: q and Q start out alike, so the first call
\* is one to q.
NextUris == IF ops = <<>> THEN {Uri("mem", TRUE, <<"q">>)} ELSE WriteUris

NextWrite ==
    \/ \E r \in NextUris, input \in WriteInputs(Len(ops) + 1) :
          input.kind # "stream" /\ writeFile(r, input, NoOptions)
    \/ \E r \in NextUris : doCopyFile(SourceUri, r)
    \/ \E i \in 1..MaxWrites : StepsWriteFile(i) \/ StepsTask(i)

SpecWrite == InitWrite /\ [][NextWrite]_vars

\* The call is in its queued task: between the task's first provider call
\* and the return of its last.
InTask(op) ==
    /\ op.task # "none"
    /\ op.pc \in {"open", "write", "stream", "close", "writeFile",
                  "openSource", "read", "readFile"}

\* The call's queued task is over.
TaskOver(op) == op.task # "none" /\ op.pc \in {"resolve", "done"}

\* The bytes a call is to leave in its target.
Payload(op) ==
    IF op.kind = "writeFile" THEN concat(op.input.chunks)
    ELSE files[fileOf(op.sourceProvider, op.source)].content

\* The calls queued under a key, in the order of their queue() calls
QueuedOn(key) == SelectSeq(enqueued, LAMBDA i : ops[i].key = key)

C2_SecondCallWins ==
    (/\ Len(ops) = 2
     /\ ops[1].kind = "writeFile" /\ ops[2].kind = "writeFile"
     /\ ops[1].resource = ops[2].resource
     /\ ops[1].pc = "done" /\ ops[2].pc = "done"
     /\ ops[1].result = "ok" /\ ops[2].result = "ok")
        => files[fileOf(ops[2].provider, ops[2].resource)].content = Payload(ops[2])

\* ------------------------------------------------ the pipeline with faults
\* No call is under way.
Alone == \A i \in 1..Len(ops) : ops[i].pc = "done"

FaultCapabilities ==
    {{FileReadWrite}, {FileOpenReadWriteClose}, {FileReadWrite, FileOpenReadWriteClose}}

\* As InitWrite, with the providers' path case left aside.
InitFault ==
    /\ InitService([s \in Schemes |-> IF s = "mem" THEN "P1" ELSE "P2"])
    /\ \E t \in FaultCapabilities, c \in FaultCapabilities :
          capabilities = [p \in Providers |-> IF p = "P1" THEN t ELSE c]
    /\ files = FilesWith(NoFile)

\* The steps of the queued tasks when provider calls may throw, streams may
\* fail and provider.write may write a part of what it is given.
StepsFault(i) ==
    \/ \E ok \in BOOLEAN : consumeStreamReturns(i, ok)
    \/ \E ok \in BOOLEAN : openReturns(i, ok)
    \/ \E ok \in BOOLEAN, n \in 1..(BUFFER_SIZE + 1) : writeReturns(i, ok, n)
    \/ streamData(i)
    \/ streamEnd(i)
    \/ streamError(i)
    \/ \E ok \in BOOLEAN : closeReturns(i, ok)
    \/ \E ok \in BOOLEAN : writeFileReturns(i, ok)
    \/ resolveReturns(i)
    \/ \E ok \in BOOLEAN : openSourceReturns(i, ok)
    \/ \E ok \in BOOLEAN : readReturns(i, ok)
    \/ \E ok \in BOOLEAN : readFileReturns(i, ok)
    \/ \E ok \in BOOLEAN : readFileBufferedReturns(i, ok)

\* One call after the other, each to mem:///q.
NextFault ==
    \/ \E input \in WriteInputs(Len(ops) + 1) :
          Alone /\ writeFile(Uri("mem", TRUE, <<"q">>), input, NoOptions)
    \/ Alone /\ doCopyFile(SourceUri, Uri("mem", TRUE, <<"q">>))
    \/ \E i \in 1..MaxWrites : StepsWriteFile(i) \/ StepsFault(i)

SpecFault == InitFault /\ [][NextFault]_vars

\* C3: provider.close is called exactly once for every handle a buffered
\* write or a pipe got from provider.open, whatever way the task ends:
\* never twice, and once when the task is over.
C3_HandlesClosedOnce ==
    \A h \in 1..Len(handles) :
        /\ handles[h].closeCalls <= 1
        /\ TaskOver(ops[handles[h].op]) => handles[h].closeCalls = 1

\* A buffered pipe has failed to open its target and is over: it holds a
\* source handle and no target handle.
C3_Witness ==
    \E i \in 1..Len(ops) :
        /\ ops[i].task = "doPipeBufferedQueued"
        /\ ops[i].pc = "done"
        /\ ops[i].error # "none"
        /\ ops[i].sourceHandle # 0
        /\ ops[i].handle = 0

\* -------------------------------------------------------- dirty-write guard
\* "world"
World5 == [kind |-> "buffer", chunks |-> << <<1, 2, 3, 4, 5>> >>]

\* The options of writeFile: none, or an mtime with the etag of that mtime
\* and a size, or of another mtime, or with etags disabled.
GuardOptions ==
    {NoOptions, [given |-> TRUE, mtime |-> 1000, etag |-> ETAG_DISABLED],
     [given |-> TRUE, mtime |-> 1000, etag |-> <<Undefined>>],
     [given |-> TRUE, mtime |-> Undefined, etag |-> etag([mtime |-> 1000, size |-> 5])]}
    \cup {[given |-> TRUE, mtime |-> m, etag |-> etag([mtime |-> e, size |-> z])] :
            m \in {1000, 2000}, e \in {1000, 2000}, z \in {5, 6}}

\* mem:///q is a file of 5 or 6 bytes with mtime 1000 or 2000.
InitGuard ==
    /\ InitService([s \in Schemes |-> IF s = "mem" THEN "P1" ELSE "P2"])
    /\ \E t \in FaultCapabilities :
          capabilities = [p \in Providers |-> t]
    /\ \E m \in {1000, 2000}, content \in {<<0, 0, 0, 0, 0>>, <<0, 0, 0, 0, 0, 0>>} :
          files = FilesWith([type |-> "file", content |-> content, mtime |-> m])

\* One writeFile("world") after the other, each to mem:///q.
NextGuard ==
    \/ \E options \in GuardOptions :
          Alone /\ writeFile(Uri("mem", TRUE, <<"q">>), World5, options)
    \/ \E i \in 1..MaxWrites :
          \/ StepsWriteFile(i)
          \/ openReturns(i, TRUE)
          \/ writeReturns(i, TRUE, ops[i].length - ops[i].totalBytesWritten)
          \/ closeReturns(i, TRUE)
          \/ writeFileReturns(i, TRUE)
          \/ resolveReturns(i)

SpecGuard == InitGuard /\ [][NextGuard]_vars

\* The options of the scenario: {mtime: 1000, etag: etag({mtime: 1000, size: 5})}
StaleOptions ==
    [given |-> TRUE, mtime |-> 1000, etag |-> etag([mtime |-> 1000, size |-> 5])]

\* The call is a writeFile with the scenario's options that found the file
\* with mtime 2000 and the given size.
StaleWrite(op, size) ==
    /\ op.kind = "writeFile"
    /\ op.options = StaleOptions
    /\ op.stat = [type |-> "file", mtime |-> 2000, size |-> size]

\* C10, as the code has it: writeFile with {mtime: 1000, etag: etag({mtime:
\* 1000, size: 5})} on a file whose stat is mtime 2000 fails with
\* FILE_MODIFIED_SINCE, after its one provider.stat and without a write,
\* when the file's size is not 5; when the size is 5 the guard lets the
\* write through.
C10_StaleWriteFailsOnOtherSize ==
    \A i \in 1..Len(ops) :
        /\ StaleWrite(ops[i], 6)
              => /\ ops[i].pc = "done"
                 /\ ops[i].result = "FILE_MODIFIED_SINCE"
                 /\ ops[i].calls = 1
                 /\ ops[i].writes = 0
        /\ StaleWrite(ops[i], 5) => ops[i].result # "FILE_MODIFIED_SINCE"

\* The guard has stopped a write with the scenario's options on a file of 6
\* bytes.
C10_Witness ==
    \E i \in 1..Len(ops) :
        StaleWrite(ops[i], 6) /\ ops[i].result = "FILE_MODIFIED_SINCE"

\* C10 as stated: with these options and mtime 2000, size 5 on disk the
\* call fails with FILE_MODIFIED_SINCE and writes nothing.
C10_StaleWriteFails ==
    \A i \in 1..Len(ops) :
        StaleWrite(ops[i], 5)
            => /\ ops[i].pc = "done"
               /\ ops[i].result = "FILE_MODIFIED_SINCE"
               /\ ops[i].writes = 0

\* The call is a writeFile that found a file at its resource.
FoundFile(op) == op.kind = "writeFile" /\ op.stat.type = "file"

\* Both options are given and the etag is not the one that disables the
\* check.
GuardArmed(options) ==
    /\ options.given
    /\ typeofNumber(options.mtime)
    /\ typeofString(options.etag)
    /\ options.etag # ETAG_DISABLED

\* The file's mtime is past options.mtime and the etag of (options.mtime,
\* the file's size) is not options.etag.
GuardTrips(options, stat) ==
    /\ options.mtime < stat.mtime
    /\ options.etag # etag([mtime |-> options.mtime, size |-> stat.size])

\* C11, as the code has it: a writeFile that finds a file at its resource
\* fails with FILE_MODIFIED_SINCE exactly when options.mtime and
\* options.etag are both given, options.etag is not ETAG_DISABLED, the
\* file's mtime is greater than options.mtime and etag(options.mtime, the
\* file's size) differs from options.etag; the call that fails has made its
\* one provider.stat and no write.
C11_GuardTripsExactlyWhenArmed ==
    \A i \in 1..Len(ops) :
        FoundFile(ops[i]) =>
            /\ ops[i].result = "FILE_MODIFIED_SINCE"
                  <=> GuardArmed(ops[i].options) /\ GuardTrips(ops[i].options, ops[i].stat)
            /\ ops[i].result = "FILE_MODIFIED_SINCE"
                  => ops[i].pc = "done" /\ ops[i].calls = 1 /\ ops[i].writes = 0

\* The guard has stopped one write, and has let through one whose options
\* carry a stale mtime and the etag of the file's size.
C11_Witness ==
    /\ \E i \in 1..Len(ops) :
          FoundFile(ops[i]) /\ ops[i].result = "FILE_MODIFIED_SINCE"
    /\ \E i \in 1..Len(ops) :
          /\ FoundFile(ops[i]) /\ ops[i].result = "ok"
          /\ GuardArmed(ops[i].options)
          /\ ops[i].options.mtime < ops[i].stat.mtime

\* C11 as stated: the call fails exactly when both options are given, the
\* mtime has advanced and the etags differ, whatever options.etag is.
C11_GuardTripsExactlyWhenGiven ==
    \A i \in 1..Len(ops) :
        FoundFile(ops[i]) =>
            (ops[i].result = "FILE_MODIFIED_SINCE"
               <=> /\ ops[i].options.given
                   /\ typeofNumber(ops[i].options.mtime)
                   /\ typeofString(ops[i].options.etag)
                   /\ GuardTrips(ops[i].options, ops[i].stat))

\* ------------------------------------------ move, copy, del, createFolder
\* calls of the mutating operations in one run
MaxCalls == 2

\* The calls made of the service so far (the others in ops are the
\* doCopyFile and doCopyFolder that doCopyFolder started).
Calls == Cardinality({i \in 1..Len(ops) : ops[i].parent = 0})

\* A call of a mutating operation begins: withProvider checks the path of
\* the first resource it resolves and awaits the activation.
Call(kind, source, target, input, flag, useTrash) ==
    /\ Calls < MaxCalls
    /\ LET op == [NewCall(kind, source, target, input, NoOptions)
                     EXCEPT !.readonlyAtCall =
                                ReadonlyNow(target) \/ (kind = "move" /\ ReadonlyNow(source)),
                            !.overwrite = flag /\ kind # "del",
                            !.recursive = flag /\ kind = "del",
                            !.useTrash = useTrash,
                            !.deleting = IF kind = "del" THEN "self" ELSE "none",
                            !.targetExisted =
                                /\ provider[target.scheme] # NoProvider
                                /\ providerStat(files, provider[target.scheme],
                                                target).type # "none"]
           first == withProviderCall([op EXCEPT !.resource = source], 0)
       IN ops' = Append(ops, [first EXCEPT !.resource = target])
    /\ UNCHANGED <<quiet, ioVars>>

move(source, target, overwrite) == Call("move", source, target, NoInput, overwrite, FALSE)
copy(source, target, overwrite) == Call("copy", source, target, NoInput, overwrite, FALSE)
del(resource, recursive, useTrash) ==
    Call("del", resource, resource, NoInput, recursive, useTrash)
createFolder(resource) == Call("createFolder", resource, resource, NoInput, FALSE, FALSE)

\* move and copy after their first await: move wants a writable provider
\* for the source that is not readonly, copy one that can read; then the
\* target's provider is awaited.
sourceResolved(i) ==
    /\ i \in 1..Len(ops)
    /\ ops[i].kind \in {"move", "copy"}
    /\ ops[i].pc = "lookup"
    /\ LET asSource == [ops[i] EXCEPT !.resource = ops[i].source]
           found == IF ops[i].kind = "move"
                      THEN throwIfFileSystemIsReadonly(withWriteProvider(asSource))
                      ELSE withReadProvider(asSource)
           op == [found EXCEPT !.resource = ops[i].resource,
                               !.sourceProvider = found.provider,
                               !.provider = NoProvider]
           next == withProviderCall(op, 0)
       IN ops' = [ops EXCEPT ![i] =
              IF op.pc = "done" THEN op
              ELSE IF next.pc = "done" THEN next
              ELSE [next EXCEPT !.pc = "lookupTarget"]]
    /\ UNCHANGED <<quiet, ioVars>>

\* isEqual(source, target, ignoreCase) on the model's paths
isEqual(a, b, ignoreCase) ==
    IF ignoreCase
      THEN /\ a.scheme = b.scheme
           /\ a.abs = b.abs
           /\ Len(a.segs) = Len(b.segs)
           /\ \A n \in DOMAIN a.segs : toLowerCase(a.segs[n]) = toLowerCase(b.segs[n])
      ELSE a = b

\* isEqualOrParent(base, parentCandidate, ignoreCase): parentCandidate is
\* base or a folder above it.
isEqualOrParent(base, parentCandidate, ignoreCase) ==
    /\ base.scheme = parentCandidate.scheme
    /\ Len(parentCandidate.segs) <= Len(base.segs)
    /\ isEqual(parentCandidate,
               [base EXCEPT !.segs = SubSeq(@, 1, Len(parentCandidate.segs))], ignoreCase)

\* doValidateMoveCopy's isSameResourceWithDifferentPathCase
isSameResourceWithDifferentPathCase(op) ==
    /\ op.sourceProvider = op.provider
    /\ PathCaseSensitive \notin capabilities[op.sourceProvider]
    /\ isEqual(op.source, op.resource, TRUE)

\* doValidateMoveCopy that lets a source pass that is the target or lies
\* above it
doValidateMoveCopy_noParentCheck(w, i) ==
    LET op == w.ops[i]
        same == op.sourceProvider = op.provider
    IN IF same /\ isSameResourceWithDifferentPathCase(op) /\ op.mode = "copy"
         THEN settle(w, i, "unableToMoveCopyError1")
       ELSE issue(w, i, "exists")

\* doValidateMoveCopy before its await: on one provider a copy onto the
\* same resource in another case is refused, and so is a target that is the
\* source or lies below it; then exists(target) is awaited.
doValidateMoveCopy(w, i) ==
    LET op == w.ops[i]
        same == op.sourceProvider = op.provider
        isPathCaseSensitive == PathCaseSensitive \in capabilities[op.sourceProvider]
    IN IF same /\ isSameResourceWithDifferentPathCase(op) /\ op.mode = "copy"
         THEN settle(w, i, "unableToMoveCopyError1")
       ELSE IF same /\ ~isSameResourceWithDifferentPathCase(op)
                /\ isEqualOrParent(op.resource, op.source, ~isPathCaseSensitive)
         THEN settle(w, i, "unableToMoveCopyError2")
       ELSE issue(w, i, "exists")

\* doMoveCopy that validates a source and a target with one string too
doMoveCopy_alwaysValidates(w, i) == doValidateMoveCopy(w, i)

\* doMoveCopy: a no-op for a source and a target with one string, else the
\* validation.
doMoveCopy(w, i) ==
    IF w.ops[i].source = w.ops[i].resource THEN doMoveCopyReturns(w, i)
    ELSE doValidateMoveCopy(w, i)

\* move and copy after the await of the target's provider: it must be
\* writable and not readonly; then doMoveCopy.
targetResolved(i) ==
    /\ i \in 1..Len(ops)
    /\ ops[i].pc = "lookupTarget"
    /\ LET op == throwIfFileSystemIsReadonly(withWriteProvider(ops[i]))
           w == [World EXCEPT !.ops[i] = op]
       IN Becomes(IF op.pc = "done" THEN w ELSE doMoveCopy(w, i))
    /\ UNCHANGED <<quiet, faults>>

\* doMoveCopy that moves on one provider as it does across two: by a copy
\* and a deletion of the source
doMoveCopyTransfer_acrossProviders(w, i) ==
    LET op == w.ops[i]
        same == op.sourceProvider = op.provider IN
    IF op.mode = "copy"
      THEN IF same /\ hasFileFolderCopyCapability(op.sourceProvider)
             THEN issue([w EXCEPT !.ops[i].log = Append(@, "copy")], i, "copy")
             ELSE issue(w, i, "resolveSource")
    ELSE doValidateMoveCopy([w EXCEPT !.ops[i].nested = TRUE, !.ops[i].mode = "copy"], i)

\* doMoveCopy once the parent of the target is there.  A copy is left to
\* provider.copy on one provider with FileFolderCopy, else the source is
\* resolved; a move is a provider.rename on one provider, else doMoveCopy
\* calls itself as a copy (the providers differ, and so do the strings of
\* source and target) and deletes the source when that has returned.
doMoveCopyTransfer(w, i) ==
    LET op == w.ops[i]
        same == op.sourceProvider = op.provider IN
    IF op.mode = "copy"
      THEN IF same /\ hasFileFolderCopyCapability(op.sourceProvider)
             THEN issue([w EXCEPT !.ops[i].log = Append(@, "copy")], i, "copy")
             ELSE issue(w, i, "resolveSource")
    ELSE IF same
      THEN issue([w EXCEPT !.ops[i].log = Append(@, "rename")], i, "rename")
    ELSE doValidateMoveCopy([w EXCEPT !.ops[i].nested = TRUE, !.ops[i].mode = "copy"], i)

\* What a call does once its mkdirp has returned: writeFile writes,
\* createFolder resolves the folder, doMoveCopy moves or copies.
afterMkdirp(w, i) ==
    CASE w.ops[i].kind = "writeFile" -> writeFileDispatch(w, i)
      [] w.ops[i].kind = "createFolder" -> issue(w, i, "resolve")
      [] OTHER -> doMoveCopyTransfer(w, i)

\* The call goes on when mkdirp has nothing left to await.
mkdirpThen(w, i) ==
    IF w.ops[i].pc = "mkdirpDone" THEN afterMkdirp(w, i) ELSE w

\* An error thrown in a call: writeFile throws it on as a
\* FileOperationError, the others as it is.
thrown(w, i, error) ==
    finish(w, i, IF w.ops[i].kind = "writeFile" THEN "FILE_OTHER_ERROR" ELSE error)

\* mkdirp: provider.stat(directory) returns.  A folder ends the walk up,
\* something else at the path is an error, and a path with nothing at it
\* is remembered and the walk goes on at its dirname, up to the root.
mkdirpStatReturns(i) ==
    /\ i \in 1..Len(ops)
    /\ ops[i].pc = "mkdirpStat"
    /\ LET op == ops[i]
           type == providerStat(files, op.provider, op.directory).type
           up == [World EXCEPT
                    !.ops[i].directoriesToCreate = Append(@, basename(op.directory)),
                    !.ops[i].directory = dirname(op.directory)]
       IN Becomes(IF type = "dir" THEN mkdirpThen(mkdirpCreate(World, i), i)
                  ELSE IF type = "file" THEN thrown(World, i, "mkdirExistsError")
                  ELSE IF dirname(op.directory).segs = <<>>
                    THEN mkdirpThen(mkdirpCreate(up, i), i)
                  ELSE issue(up, i, "mkdirpStat"))
    /\ UNCHANGED <<quiet, faults>>

\* mkdirp: provider.mkdir(directory) returns or throws (FileExists when
\* something is at the path by now); the next directory is made.
mkdirReturns(i) ==
    /\ i \in 1..Len(ops)
    /\ ops[i].pc = "mkdir"
    /\ LET op == ops[i]
           made == [World EXCEPT !.files = providerMkdir(@, op.provider, op.directory)]
       IN Becomes(IF canMkdir(files, op.provider, op.directory)
                    THEN mkdirpThen(mkdirpCreate(made, i), i)
                    ELSE thrown(World, i, "FileExists"))
    /\ UNCHANGED <<quiet, faults>>

\* exists(target) returns to a doValidateMoveCopy that takes overwrite as
\* set.
existsReturns_overwrites(i) ==
    /\ i \in 1..Len(ops)
    /\ ops[i].pc = "exists"
    /\ LET op == ops[i]
           exists == providerStat(files, op.provider, op.resource).type # "none"
           isPathCaseSensitive == PathCaseSensitive \in capabilities[op.sourceProvider]
           clash == exists /\ ~isSameResourceWithDifferentPathCase(op)
       IN Becomes(
           IF clash /\ op.sourceProvider = op.provider
                    /\ isEqualOrParent(op.source, op.resource, ~isPathCaseSensitive)
             THEN settle(World, i, "unableToMoveCopyError4")
           ELSE IF clash THEN startDel(World, i, "target")
           ELSE mkdirpThen(mkdirp(World, i, dirname(op.resource)), i))
    /\ UNCHANGED <<quiet, faults>>

\* exists(target) returns to a doValidateMoveCopy without the check for a
\* target that the source is contained in.
existsReturns_noContainedCheck(i) ==
    /\ i \in 1..Len(ops)
    /\ ops[i].pc = "exists"
    /\ LET op == ops[i]
           exists == providerStat(files, op.provider, op.resource).type # "none"
           clash == exists /\ ~isSameResourceWithDifferentPathCase(op)
       IN Becomes(
           IF clash /\ ~op.overwrite THEN settle(World, i, "FILE_MOVE_CONFLICT")
           ELSE IF clash THEN startDel(World, i, "target")
           ELSE mkdirpThen(mkdirp(World, i, dirname(op.resource)), i))
    /\ UNCHANGED <<quiet, faults>>

\* exists(target) returns to doValidateMoveCopy.  A target that is there
\* (and is not the source in another case) is a FILE_MOVE_CONFLICT without
\* overwrite, and an error on one provider when the source is the target or
\* lies below it; doMoveCopy then deletes that target, and makes the
\* target's parent.
existsReturns(i) ==
    /\ i \in 1..Len(ops)
    /\ ops[i].pc = "exists"
    /\ LET op == ops[i]
           exists == providerStat(files, op.provider, op.resource).type # "none"
           isPathCaseSensitive == PathCaseSensitive \in capabilities[op.sourceProvider]
           clash == exists /\ ~isSameResourceWithDifferentPathCase(op)
       IN Becomes(
           IF clash /\ ~op.overwrite THEN settle(World, i, "FILE_MOVE_CONFLICT")
           ELSE IF clash /\ op.sourceProvider = op.provider
                      /\ isEqualOrParent(op.source, op.resource, ~isPathCaseSensitive)
             THEN settle(World, i, "unableToMoveCopyError4")
           ELSE IF clash THEN startDel(World, i, "target")
           ELSE mkdirpThen(mkdirp(World, i, dirname(op.resource)), i))
    /\ UNCHANGED <<quiet, faults>>

\* del after its await of withProvider: the provider must not be readonly,
\* and must have Trash for a del with useTrash; then exists(resource) is
\* awaited.
delResolved(i) ==
    /\ i \in 1..Len(ops)
    /\ ops[i].kind = "del"
    /\ ops[i].pc = "lookup"
    /\ LET op == throwIfFileSystemIsReadonly(withProviderLookup(ops[i]))
           w == [World EXCEPT !.ops[i] = op]
       IN Becomes(IF op.pc = "done" THEN w
                  ELSE IF op.useTrash /\ Trash \notin capabilities[op.provider]
                    THEN settle(w, i, "deleteFailedTrashUnsupported")
                  ELSE issue(w, i, "delExists"))
    /\ UNCHANGED <<quiet, faults>>

\* The del that doMoveCopy called, after its await of withProvider
delLookupReturns(i) ==
    /\ i \in 1..Len(ops)
    /\ ops[i].pc = "delLookup"
    /\ LET p == provider[delResource(ops[i]).scheme]
       IN Becomes(IF p = NoProvider THEN thrown(World, i, "ENOPRO")
                  ELSE IF Readonly \in capabilities[p]
                    THEN thrown(World, i, "FILE_PERMISSION_DENIED")
                  ELSE issue(World, i, "delExists"))
    /\ UNCHANGED <<quiet, faults>>

\* del: exists(resource) returns.  FILE_NOT_FOUND for a resource that is not
\* there; a del that is not recursive resolves the resource; else
\* provider.delete.
delExistsReturns(i) ==
    /\ i \in 1..Len(ops)
    /\ ops[i].pc = "delExists"
    /\ LET op == ops[i]
           p == provider[delResource(op).scheme]
       IN Becomes(
           IF providerStat(files, p, delResource(op)).type = "none"
             THEN thrown(World, i, "FILE_NOT_FOUND")
           ELSE IF op.deleting = "self" /\ ~op.recursive THEN issue(World, i, "delResolve")
           ELSE issue([World EXCEPT !.ops[i].log =
                          Append(@, IF op.deleting = "source" THEN "deleteSource"
                                    ELSE "delete")], i, "delete"))
    /\ UNCHANGED <<quiet, faults>>

\* del that is not recursive: resolve(resource) returns, and a folder with
\* children is refused.  toFileStat takes a folder whose provider.readdir
\* throws (ok is false) for one without children.
delResolveReturns(i, ok) ==
    /\ i \in 1..Len(ops)
    /\ ops[i].pc = "delResolve"
    /\ LET op == ops[i]
           p == provider[op.resource.scheme]
           stat == providerStat(files, p, op.resource)
           children == IF ok THEN providerReaddir(files, p, op.resource) ELSE {}
       IN /\ ok \/ stat.type = "dir"
          /\ Becomes(
               IF stat.type = "none" THEN thrown(World, i, "FILE_NOT_FOUND")
               ELSE IF stat.type = "dir" /\ children # {}
                 THEN thrown(World, i, "deleteFailedNonEmptyFolder")
               ELSE issue([World EXCEPT !.ops[i].log = Append(@, "delete")], i, "delete"))
    /\ Faulted(ok)
    /\ UNCHANGED quiet

\* provider.delete(resource, {recursive, useTrash}) returns, or throws
\* (FileNotFound, or for a folder with children that is not deleted
\* recursively): DELETE is fired, and del returns: to its caller, or to
\* doMoveCopy, which makes the target's parent after the target's deletion
\* and returns after the source's.
deleteReturns(i) ==
    /\ i \in 1..Len(ops)
    /\ ops[i].pc = "delete"
    /\ LET op == ops[i]
           p == provider[delResource(op).scheme]
           w1 == fireAfterOperation(
                     [World EXCEPT !.files = providerDelete(@, p, delResource(op))], i)
           w2 == [w1 EXCEPT !.ops[i].deleting = "none"]
       IN Becomes(
           IF providerStat(files, p, delResource(op)).type = "none"
             THEN thrown(World, i, "FileNotFound")
           ELSE IF /\ op.deleting = "self" /\ ~op.recursive
                   /\ providerReaddir(files, p, op.resource) # {}
             THEN thrown(World, i, "Unknown")
           ELSE IF op.deleting = "self" THEN settle(w1, i, "ok")
           ELSE IF op.deleting = "target"
             THEN mkdirpThen(mkdirp(w2, i, dirname(op.resource)), i)
           ELSE issue(w2, i, "resolve"))
    /\ UNCHANGED <<quiet, faults>>

\* provider.rename(source, target, {overwrite}) returns, or throws
\* FileNotFound for a source that is not there.
renameReturns(i) ==
    /\ i \in 1..Len(ops)
    /\ ops[i].pc = "rename"
    /\ LET op == ops[i] IN
       Becomes(IF providerStat(files, op.sourceProvider, op.source).type = "none"
                 THEN thrown(World, i, "FileNotFound")
                 ELSE doMoveCopyReturns(
                          [World EXCEPT !.files = providerTransfer(@, op.provider, op.source,
                                                                  op.resource, FALSE)], i))
    /\ UNCHANGED <<quiet, faults>>

\* provider.copy(source, target, {overwrite}) returns, or throws
\* FileNotFound for a source that is not there.
copyReturns(i) ==
    /\ i \in 1..Len(ops)
    /\ ops[i].pc = "copy"
    /\ LET op == ops[i] IN
       Becomes(IF providerStat(files, op.sourceProvider, op.source).type = "none"
                 THEN thrown(World, i, "FileNotFound")
                 ELSE doMoveCopyReturns(
                          [World EXCEPT !.files = providerTransfer(@, op.provider, op.source,
                                                                  op.resource, TRUE)], i))
    /\ UNCHANGED <<quiet, faults>>

\* doCopyFolder(sourceProvider, sourceFolder, targetProvider, targetFolder),
\* up to its await of targetProvider.mkdir(targetFolder)
doCopyFolder(w, i) ==
    issue([w EXCEPT !.ops[i].log = Append(@, "mkdir")], i, "mkdirTarget")

\* resolve(source) returns to doMoveCopy, or resolve(sourceChild.resource)
\* to doCopyFolder, with the children the source has now: a folder is
\* copied by doCopyFolder and a file by doCopyFile.
resolveSourceReturns(i) ==
    /\ i \in 1..Len(ops)
    /\ ops[i].pc = "resolveSource"
    /\ LET op == ops[i]
           type == providerStat(files, op.sourceProvider, op.source).type
       IN Becomes(
          IF type = "none" THEN thrown(World, i, "FILE_NOT_FOUND")
          ELSE IF type = "dir"
            THEN doCopyFolder([World EXCEPT !.ops[i].children =
                                  providerReaddir(files, op.sourceProvider, op.source)], i)
          ELSE doCopyFileDispatch(World, i))
    /\ UNCHANGED <<quiet, faults>>

\* doCopyFolder's Promise.all over sourceFolder.children: each child's
\* function runs up to its first await, a folder's to the resolve of the
\* child and a file's into doCopyFile.
RECURSIVE copyChildren(_, _, _)
copyChildren(w, i, children) ==
    IF children = {} THEN w
    ELSE LET child == CHOOSE c \in children : TRUE
             op == w.ops[i]
             k == Len(w.ops) + 1
             call == [NewCall(IF child.isDirectory THEN "doCopyFolder" ELSE "doCopyFile",
                              joinPath(op.source, child.name),
                              joinPath(op.resource, child.name), NoInput, NoOptions)
                         EXCEPT !.provider = op.provider,
                                !.sourceProvider = op.sourceProvider,
                                !.parent = i]
             w1 == [w EXCEPT !.ops = Append(@, call)]
         IN copyChildren(IF child.isDirectory THEN issue(w1, k, "resolveSource")
                         ELSE doCopyFileDispatch(w1, k),
                         i, children \ {child})

\* doCopyFolder: targetProvider.mkdir(targetFolder) returns or throws; the
\* children are copied, and a folder without children is done.
mkdirTargetReturns(i) ==
    /\ i \in 1..Len(ops)
    /\ ops[i].pc = "mkdirTarget"
    /\ LET op == ops[i]
           made == [World EXCEPT !.files = providerMkdir(@, op.provider, op.resource),
                                 !.ops[i].pc = "children",
                                 !.ops[i].pending = Cardinality(op.children)]
       IN Becomes(IF ~canMkdir(files, op.provider, op.resource)
                    THEN thrown(World, i, "FileExists")
                  ELSE IF op.children = {} THEN copied(made, i)
                  ELSE copyChildren(made, i, op.children))
    /\ UNCHANGED <<quiet, faults>>

\* createFolder after its await of withProvider: the provider must not be
\* readonly; then mkdirp(provider, resource).
createFolderResolved(i) ==
    /\ i \in 1..Len(ops)
    /\ ops[i].kind = "createFolder"
    /\ ops[i].pc = "lookup"
    /\ LET op == throwIfFileSystemIsReadonly(withProviderLookup(ops[i]))
           w == [World EXCEPT !.ops[i] = op]
       IN Becomes(IF op.pc = "done" THEN w
                  ELSE mkdirpThen(mkdirp(w, i, op.resource), i))
    /\ UNCHANGED <<quiet, faults>>

\* ------------------------------------------- writeFile below missing folders
MkdirpUris ==
    {Uri("mem", TRUE, <<"d", "q">>), Uri("mem", TRUE, <<"d", "s">>),
     Uri("mem", TRUE, <<"d", "d", "q">>)}

\* A folder, as a provider stores it
Folder == [type |-> "dir", content |-> <<>>, mtime |-> 1000]

\* mem is served by P1, which can write; mem:///d is a folder, or nothing
\* is there, and nothing is below it.
InitMkdirp ==
    /\ InitService([s \in Schemes |-> IF s = "mem" THEN "P1" ELSE "P2"])
    /\ \E t \in {{FileReadWrite}, {FileOpenReadWriteClose}} :
          capabilities = [p \in Providers |-> t]
    /\ \E d \in {NoFile, Folder} :
          files = [f \in Providers \X Paths |-> IF f[2] = <<"d">> THEN d ELSE NoFile]

\* writeFile calls without options, made at any time; no provider call
\* fails but a mkdir of what is there.
NextMkdirp ==
    \/ \E r \in MkdirpUris :
          writeFile(r, [kind |-> "buffer", chunks |-> << <<Len(ops) + 1>> >>], NoOptions)
    \/ \E i \in 1..MaxWrites :
          \/ StepsWriteFile(i)
          \/ mkdirpStatReturns(i)
          \/ mkdirReturns(i)
          \/ openReturns(i, TRUE)
          \/ writeReturns(i, TRUE, ops[i].length - ops[i].totalBytesWritten)
          \/ closeReturns(i, TRUE)
          \/ writeFileReturns(i, TRUE)
          \/ resolveReturns(i)

SpecMkdirp == InitMkdirp /\ [][NextMkdirp]_vars

\* C12: every writeFile call without mtime and etag on a provider that can
\* write succeeds, whether or not the resource and the folders above it are
\* there, also when other writeFile calls below the same missing folder are
\* under way; the folders above the resource and the file are there then.
C12_WriteFileMakesParents ==
    \A i \in 1..Len(ops) :
        ops[i].pc = "done"
            => /\ ops[i].result = "ok"
               /\ files[fileOf(ops[i].provider, ops[i].resource)].type = "file"
               /\ parentIsThere(files, fileOf(ops[i].provider, ops[i].resource))

\* ---------------------------------------------------------------- readFile
\* How many readFile calls one run makes
MaxReads == 1

\* Uint8Array.slice(start, end) of the bytes from index start up to end
slice(bytes, start, end) ==
    IF start >= Len(bytes) \/ end <= start THEN <<>>
    ELSE SubSeq(bytes, start + 1, Min(end, Len(bytes)))

\* readFileUnbuffered taking the length from the start of the file, and
\* the position from what is left
readFileUnbuffered_lengthFirst(content, options) ==
    LET cut == IF typeofNumber(options.length)
                 THEN slice(content, 0, options.length) ELSE content
    IN IF typeofNumber(options.position)
         THEN slice(cut, options.position, Len(cut)) ELSE cut

\* readFileUnbuffered, after provider.readFile: the buffer from
\* options.position on, and of that the first options.length bytes
readFileUnbuffered(content, options) ==
    LET from == IF typeofNumber(options.position)
                  THEN slice(content, options.position, Len(content)) ELSE content
    IN IF typeofNumber(options.length) THEN slice(from, 0, options.length) ELSE from

\* What provider.readFileStream and createReadStream hand on of a file:
\* its bytes from options.position on, options.length of them at most
readFileStreamed(content, options) ==
    LET position == IF typeofNumber(options.position) THEN options.position ELSE 0
    IN slice(content, position,
             IF typeofNumber(options.length) THEN position + options.length
             ELSE Len(content))

\* doReadAsFileStream that prefers the stream to the unbuffered read
readPath_streamedFirst(p, preferUnbuffered) ==
    IF hasFileReadStreamCapability(p) THEN "readFileStreamed"
    ELSE IF hasOpenReadWriteCloseCapability(p) /\ ~preferUnbuffered THEN "readFileBuffered"
    ELSE "readFileUnbuffered"

\* doReadAsFileStream's choice of how to read: unbuffered when it is
\* preferred and possible or when nothing else is, else streamed when that
\* is possible, else buffered.
readPath(p, preferUnbuffered) ==
    IF \/ ~(hasOpenReadWriteCloseCapability(p) \/ hasFileReadStreamCapability(p))
       \/ (hasReadWriteCapability(p) /\ preferUnbuffered)
      THEN "readFileUnbuffered"
    ELSE IF hasFileReadStreamCapability(p) THEN "readFileStreamed"
    ELSE "readFileBuffered"

\* readFile(resource, options), up to its await of withReadProvider; it
\* hands preferUnbuffered: true to doReadAsFileStream.
readFile(resource, options) ==
    /\ Cardinality({i \in 1..Len(ops) : ops[i].kind = "readFile"}) < MaxReads
    /\ ops' = Append(ops, withProviderCall(
                  [NewCall("readFile", resource, resource, NoInput, options)
                      EXCEPT !.preferUnbuffered = TRUE], 0))
    /\ UNCHANGED <<quiet, ioVars>>

\* readFileStream(resource, options), up to its await of withReadProvider
readFileStream(resource, options) ==
    /\ Cardinality({i \in 1..Len(ops) : ops[i].kind = "readFileStream"}) < MaxReads
    /\ ops' = Append(ops, withProviderCall(
                  NewCall("readFileStream", resource, resource, NoInput, options), 0))
    /\ UNCHANGED <<quiet, ioVars>>

\* readFile's doReadAsFileStream for a call without etag, whose stat and
\* read are awaited together: validateReadFile is started and the file is
\* read as readPath says.
readFileResolved(i) ==
    /\ i \in 1..Len(ops)
    /\ ops[i].kind = "readFile"
    /\ ops[i].pc = "lookup"
    /\ LET op == withReadProvider(ops[i])
           p == op.provider
       IN ops' = [ops EXCEPT ![i] =
             IF op.pc = "done" THEN op
             ELSE [op EXCEPT !.calls = @ + 1,
                     !.pc = readPath(p, op.preferUnbuffered)]]
    /\ UNCHANGED <<quiet, ioVars>>

\* The stat of validateReadFile and the read have both returned: the call
\* fails for a resource that is not there or is a directory, else its
\* value is what was read.
readReturned(w, i, value) ==
    LET type == providerStat(w.files, w.ops[i].provider, w.ops[i].resource).type IN
    IF type = "none" THEN settle(w, i, "FILE_NOT_FOUND")
    ELSE IF type = "dir" THEN settle(w, i, "FILE_IS_DIRECTORY")
    ELSE settle([w EXCEPT !.ops[i].buffer = value], i, "ok")

\* provider.readFile(resource) returns to readFileUnbuffered.
readFileUnbufferedReturns(i) ==
    /\ i \in 1..Len(ops)
    /\ ops[i].pc = "readFileUnbuffered"
    /\ Becomes(readReturned(World, i,
           readFileUnbuffered(files[fileOf(ops[i].provider, ops[i].resource)].content,
                              ops[i].options)))
    /\ UNCHANGED <<quiet, faults>>

\* The stream of readFileStreamed or readFileBuffered has ended.
readFileStreamReturns(i) ==
    /\ i \in 1..Len(ops)
    /\ ops[i].pc \in {"readFileStreamed", "readFileBuffered"}
    /\ Becomes(readReturned(World, i,
           readFileStreamed(files[fileOf(ops[i].provider, ops[i].resource)].content,
                            ops[i].options)))
    /\ UNCHANGED <<quiet, faults>>

\* What the i-th call writes: bytes that name the call, as a buffer, as a
\* readable of no chunk, of three with an empty one, or of four, and as a
\* stream of one chunk or of four.
RoundInputs(i) ==
    {[kind |-> "buffer", chunks |-> << <<i, 2, 3>> >>],
     [kind |-> "readable", chunks |-> <<>>],
     [kind |-> "readable", chunks |-> << <<i>>, <<>>, <<3>> >>],
     [kind |-> "readable", chunks |-> << <<i>>, <<2>>, <<3>>, <<4>> >>],
     [kind |-> "stream", chunks |-> << <<i, 2>> >>],
     [kind |-> "stream", chunks |-> << <<i>>, <<2>>, <<3>>, <<4>> >>]}

ReadOptions ==
    {[position |-> position, length |-> length] :
        position \in {Undefined, 1, 5}, length \in {Undefined, 0, 2}}

\* The capability sets a provider can be read and written with
RoundCapabilities ==
    {c \in SUBSET {FileReadWrite, FileOpenReadWriteClose, FileReadStream} :
        FileReadWrite \in c \/ FileOpenReadWriteClose \in c}

\* mem is served by P1, which can read and write; mem:///q is an older,
\* longer file, or nothing is there.
InitRound ==
    /\ InitService([s \in Schemes |-> IF s = "mem" THEN "P1" ELSE "P2"])
    /\ \E t \in RoundCapabilities : capabilities = [p \in Providers |-> t]
    /\ \E old \in {NoFile, [OldFile EXCEPT !.content = <<0, 0, 0, 0, 0, 0>>]} :
          files = FilesWith(old)

\* No readFile call has been made
Unread == \A i \in 1..Len(ops) : ops[i].kind # "readFile"

\* One call after the other, each on mem:///q, the writes before the reads;
\* provider.write may write a part of what it is given.
NextRound ==
    \/ \E input \in RoundInputs(Len(ops) + 1) :
          Alone /\ Unread /\ writeFile(Uri("mem", TRUE, <<"q">>), input, NoOptions)
    \/ \E options \in ReadOptions :
          Alone /\ readFile(Uri("mem", TRUE, <<"q">>), options)
    \/ \E i \in 1..(MaxWrites + MaxReads) :
          \/ StepsWriteFile(i)
          \/ consumeStreamReturns(i, TRUE)
          \/ openReturns(i, TRUE)
          \/ \E n \in {1, BUFFER_SIZE + 1} : writeReturns(i, TRUE, n)
          \/ streamData(i)
          \/ streamEnd(i)
          \/ closeReturns(i, TRUE)
          \/ writeFileReturns(i, TRUE)
          \/ resolveReturns(i)
          \/ readFileResolved(i)
          \/ readFileUnbufferedReturns(i)
          \/ readFileStreamReturns(i)

SpecRound == InitRound /\ [][NextRound]_vars

\* The writeFile call before call j, when there is one
LastWrite(j) ==
    LET before == {i \in 1..(j - 1) : ops[i].kind = "writeFile"}
    IN IF before = {} THEN 0 ELSE CHOOSE i \in before : \A k \in before : k <= i

changeCapabilities(p) ==
    /\ capabilities' = [capabilities EXCEPT ![p] =
           IF Readonly \in @ THEN @ \ {Readonly} ELSE @ \cup {Readonly}]
    /\ UNCHANGED <<regVars, watchVars, opVars, ioVars>>

OpsCapabilities ==
    {{FileReadWrite}, {FileReadWrite, Readonly}, {FileOpenReadWriteClose, Readonly},
     {FileReadStream, Readonly}}

OpsUris == {Uri("mem", TRUE, <<"q">>), Uri("mem", FALSE, <<"q">>)}

\* mem is served by P1, which is readonly or not and may only be able to
\* stream; src is served by P2 or by nothing.  P1 has a file at s and may
\* have one at q, P2 has a file at s.
InitOps ==
    /\ \E p2 \in {"P2", NoProvider} :
          InitService([s \in Schemes |-> IF s = "mem" THEN "P1" ELSE p2])
    /\ \E t \in OpsCapabilities :
          capabilities = [p \in Providers |-> IF p = "P1" THEN t ELSE {FileReadWrite}]
    /\ \E old \in {NoFile, OldFile} :
          files = [f \in Providers \X Paths |->
                     IF f[2] = <<"s">> THEN SourceFile
                     ELSE IF f = <<"P1", <<"q">> >> THEN old
                     ELSE NoFile]

\* One call after the other; the provider of mem may change its
\* capabilities at any time.
NextOps ==
    \/ \E r \in OpsUris :
          Alone /\ Len(ops) < MaxCalls
                /\ writeFile(r, [kind |-> "buffer", chunks |-> << <<Len(ops) + 1>> >>], NoOptions)
    \/ \E r \in OpsUris : Alone /\ move(Uri("mem", TRUE, <<"s">>), r, FALSE)
    \/ \E r \in OpsUris : Alone /\ copy(SourceUri, r, FALSE)
    \/ \E r \in OpsUris : Alone /\ del(r, TRUE, FALSE)
    \/ Alone /\ createFolder(Uri("mem", TRUE, <<"d">>))
    \/ changeCapabilities("P1")
    \/ \E i \in 1..MaxCalls :
          \/ writeFileResolved(i)
          \/ validateWriteFileReturns(i)
          \/ sourceResolved(i)
          \/ targetResolved(i)
          \/ delResolved(i)
          \/ createFolderResolved(i)
          \/ existsReturns(i)
          \/ delExistsReturns(i)
          \/ deleteReturns(i)
          \/ renameReturns(i)
          \/ resolveSourceReturns(i)
          \/ mkdirpStatReturns(i)
          \/ mkdirReturns(i)
          \/ readFileReturns(i, TRUE)
          \/ writeFileReturns(i, TRUE)
          \/ openReturns(i, TRUE)
          \/ writeReturns(i, TRUE, ops[i].length - ops[i].totalBytesWritten)
          \/ closeReturns(i, TRUE)
          \/ resolveReturns(i)

SpecOps == InitOps /\ [][NextOps]_vars

\* C9, as the code has it: a writeFile, move, copy, del or createFolder
\* that gets as far as its readonly check and finds Readonly among the
\* capabilities of the provider (for move the source's or the target's, for
\* copy the target's) fails with FILE_PERMISSION_DENIED, has made no
\* provider call and has fired no onAfterOperation event; a call that fails
\* before that check, on a relative path (FILE_INVALID_PATH), a scheme
\* without provider (ENOPRO) or a provider that can neither FileReadWrite
\* nor FileOpenReadWriteClose (Error), has made no call and fired no event
\* either.
C9_ReadonlyAtCheckIsDenied ==
    \A i \in 1..Len(ops) :
        /\ ops[i].readonlyAtCheck
              => /\ ops[i].pc = "done"
                 /\ ops[i].result = "FILE_PERMISSION_DENIED"
                 /\ ops[i].calls = 0
                 /\ ops[i].events = 0
        /\ ops[i].result \in {"FILE_PERMISSION_DENIED", "FILE_INVALID_PATH", "ENOPRO", "Error"}
              => /\ ops[i].calls = 0
                 /\ ops[i].events = 0

\* A call has been denied on a readonly provider after another call has
\* gone through and fired its event.
C9_Witness ==
    \E i, j \in 1..Len(ops) :
        /\ ops[i].readonlyAtCheck
        /\ ops[i].result = "FILE_PERMISSION_DENIED"
        /\ ops[j].events = 1
        /\ ops[j].calls > 0

\* C9 as stated: a call with absolute paths made while the provider reports
\* Readonly makes no provider call, fires no event and fails with
\* FILE_PERMISSION_DENIED.
C9_ReadonlyAtCallIsDenied ==
    \A i \in 1..Len(ops) :
        (/\ ops[i].readonlyAtCall
         /\ isAbsolutePath(ops[i].resource)
         /\ isAbsolutePath(ops[i].source))
            => /\ ops[i].calls = 0
               /\ ops[i].events = 0
               /\ ops[i].pc = "done" => ops[i].result = "FILE_PERMISSION_DENIED"

\* ------------------------------------------------- move and copy of trees
\* The files of a run, the same on both providers: a file q, and a folder
\* d with a file q and a folder d that has a file q; with `target`, a
\* folder s with a file q as well.
TreeFiles(target) ==
    [f \in Providers \X Paths |->
        CASE f[2] = <<"q">> -> [type |-> "file", content |-> <<1>>, mtime |-> 1000]
          [] f[2] \in {<<"d">>, <<"d", "d">>} -> Folder
          [] f[2] = <<"d", "q">> -> [type |-> "file", content |-> <<2, 3>>, mtime |-> 1000]
          [] f[2] = <<"d", "d", "q">> -> [type |-> "file", content |-> <<4>>, mtime |-> 1000]
          [] f[2] = <<"s">> /\ target -> Folder
          [] f[2] = <<"s", "q">> /\ target ->
                 [type |-> "file", content |-> <<5>>, mtime |-> 1000]
          [] OTHER -> NoFile]

TreeSources ==
    {Uri("mem", TRUE, segs) : segs \in {<<"q">>, <<"d">>, <<"d", "q">>, <<"d", "d">>,
                                        <<"s">>, <<"s", "q">>}}
        \cup {Uri("src", TRUE, segs) : segs \in {<<"q">>, <<"d">>}}

TreeTargets ==
    {Uri("mem", TRUE, segs) : segs \in {<<"q">>, <<"Q">>, <<"s">>, <<"d">>, <<"d", "q">>,
                                        <<"d", "s">>, <<"s", "d">>}}

\* mem is served by P1, which can write, and src by P2, which can read.
TreeCapabilities ==
    {[P1 |-> t \cup c, P2 |-> s \cup {PathCaseSensitive}] :
        t \in {{FileReadWrite}, {FileOpenReadWriteClose}, {FileReadWrite, FileFolderCopy}},
        c \in {{}, {PathCaseSensitive}},
        s \in {{FileReadWrite}, {FileOpenReadWriteClose}, {FileReadStream}}}

InitTree ==
    /\ InitService([s \in Schemes |-> IF s = "mem" THEN "P1" ELSE "P2"])
    /\ capabilities \in TreeCapabilities
    /\ \E target \in BOOLEAN : files = TreeFiles(target)

\* What is at the source and below it has a place at the target among the
\* paths of the model; a target at or below the source takes nothing.
Fits(source, target) ==
    \/ isEqualOrParent(target, source, TRUE)
    \/ \A f \in Paths :
          (/\ isBelow(f, source.segs)
           /\ files[<<provider[source.scheme], f>>].type # "none")
              => target.segs \o SubSeq(f, Len(source.segs) + 1, Len(f)) \in Paths

\* One move or copy in a run; a write of the copying may fail.
NextTree ==
    \/ \E source \in TreeSources, target \in TreeTargets, overwrite \in BOOLEAN :
          /\ ops = <<>>
          /\ Fits(source, target)
          /\ move(source, target, overwrite) \/ copy(source, target, overwrite)
    \/ \E i \in 1..Len(ops) :
          \/ sourceResolved(i)
          \/ targetResolved(i)
          \/ existsReturns(i)
          \/ delLookupReturns(i)
          \/ delExistsReturns(i)
          \/ deleteReturns(i)
          \/ mkdirpStatReturns(i)
          \/ mkdirReturns(i)
          \/ renameReturns(i)
          \/ copyReturns(i)
          \/ resolveSourceReturns(i)
          \/ mkdirTargetReturns(i)
          \/ openSourceReturns(i, TRUE)
          \/ openReturns(i, TRUE)
          \/ readReturns(i, TRUE)
          \/ writeReturns(i, TRUE, ops[i].length - ops[i].totalBytesWritten)
          \/ closeReturns(i, TRUE)
          \/ readFileReturns(i, TRUE)
          \/ readFileBufferedReturns(i, TRUE)
          \/ \E ok \in BOOLEAN : writeFileReturns(i, ok)
          \/ resolveReturns(i)

SpecTree == InitTree /\ [][NextTree]_vars

\* Call i is a move or copy that has returned to its caller.
Returned(i, kind) ==
    ops[i].kind = kind /\ ops[i].parent = 0 /\ ops[i].pc = "done"

\* What is at `target` and below it is what is at `source` and below it:
\* the same names, with the same types and bytes.
SameTree(sp, source, tp, target) ==
    LET from == fileOf(sp, source)[2]
        to == fileOf(tp, target)[2]
    IN /\ \A f \in Paths :
             isBelow(f, from) =>
                LET g == to \o SubSeq(f, Len(from) + 1, Len(f)) IN
                files[<<sp, f>>].type # "none" =>
                    /\ g \in Paths
                    /\ files[<<tp, g>>].type = files[<<sp, f>>].type
                    /\ files[<<tp, g>>].content = files[<<sp, f>>].content
       /\ \A g \in Paths :
             (isBelow(g, to) /\ files[<<tp, g>>].type # "none") =>
                LET f == from \o SubSeq(g, Len(to) + 1, Len(g)) IN
                f \in Paths /\ files[<<sp, f>>].type # "none"

\* C14: when copy(source, target) of a folder that is not left to the
\* provider's copy has succeeded, the tree at the target has the names and
\* the contents of the tree at the source, whatever the providers can do
\* that copy accepts.
C14_CopiedFolderIsTheSourceTree ==
    \A i \in 1..Len(ops) :
        (/\ Returned(i, "copy")
         /\ ops[i].result = "ok"
         /\ providerStat(files, ops[i].sourceProvider, ops[i].source).type = "dir"
         /\ ~(ops[i].sourceProvider = ops[i].provider
                /\ hasFileFolderCopyCapability(ops[i].provider)))
            => SameTree(ops[i].sourceProvider, ops[i].source,
                        ops[i].provider, ops[i].resource)

\* A move or copy as its caller made it (not a step of doCopyFolder)
TopCall(i) == ops[i].parent = 0 /\ ops[i].kind \in {"move", "copy"}

OnOneProvider(op) == provider[op.source.scheme] = provider[op.resource.scheme]

\* move and copy get past withWriteProvider, withReadProvider and
\* throwIfFileSystemIsReadonly.
Accepted(op) ==
    LET sp == provider[op.source.scheme]
        tp == provider[op.resource.scheme]
        writes(p) == /\ hasOpenReadWriteCloseCapability(p) \/ hasReadWriteCapability(p)
                     /\ Readonly \notin capabilities[p]
    IN /\ writes(tp)
       /\ IF op.kind = "move" THEN writes(sp)
          ELSE \/ hasOpenReadWriteCloseCapability(sp)
               \/ hasReadWriteCapability(sp)
               \/ hasFileReadStreamCapability(sp)

\* The source's provider takes paths that differ in case for one resource.
IgnoresCase(op) == PathCaseSensitive \notin capabilities[provider[op.source.scheme]]

\* Source and target are one resource of one provider.
SameResource(op) ==
    OnOneProvider(op) /\ isEqual(op.source, op.resource, IgnoresCase(op))

\* Source and target are one resource whose two paths differ in case.
DiffersInCaseOnly(op) == SameResource(op) /\ op.source # op.resource

\* On one provider the source is the target or a folder above it.
SourceIsTargetOrAbove(op) ==
    OnOneProvider(op) /\ isEqualOrParent(op.resource, op.source, IgnoresCase(op))

\* On one provider the target is the source or a folder above it.
TargetIsSourceOrAbove(op) ==
    OnOneProvider(op) /\ isEqualOrParent(op.source, op.resource, IgnoresCase(op))

Count(s, x) == Cardinality({n \in DOMAIN s : s[n] = x})

Exists(resource) ==
    providerStat(files, provider[resource.scheme], resource).type # "none"

\* Call i has issued no mkdir, delete, rename or copy, has started no
\* doCopyFile or doCopyFolder and no write, and the files are as they were.
NothingMutated(i) ==
    /\ ops[i].log = <<>>
    /\ ops[i].task = "none"
    /\ \A k \in 1..Len(ops) : ops[k].parent # i
    /\ files \in {TreeFiles(target) : target \in BOOLEAN}

\* C15 (as the code has it): a move(x, y) that succeeds for two resources
\* x and y of one provider has called provider.rename once, has copied
\* nothing and not deleted the source, leaves exists(x) false and exists(y)
\* true, and has fired MOVE once, as its last event; before it, DELETE is
\* fired once when the move deleted the target it overwrites.
C15_MoveOnOneProviderRenames ==
    \A i \in 1..Len(ops) :
        (/\ Returned(i, "move")
         /\ OnOneProvider(ops[i])
         /\ ops[i].result = "ok"
         /\ ~SameResource(ops[i]))
            => /\ Count(ops[i].log, "rename") = 1
               /\ Count(ops[i].log, "copy") = 0
               /\ Count(ops[i].log, "deleteSource") = 0
               /\ ops[i].task = "none"
               /\ \A k \in 1..Len(ops) : ops[k].parent # i
               /\ ~Exists(ops[i].source)
               /\ Exists(ops[i].resource)
               /\ ops[i].fired \in {<<"MOVE">>, <<"DELETE", "MOVE">>}
               /\ ops[i].fired = <<"DELETE", "MOVE">>
                     <=> (ops[i].overwrite /\ ops[i].targetExisted)
               /\ Count(ops[i].log, "delete") = Count(ops[i].fired, "DELETE")

\* A folder has been moved onto a folder that was there, with overwrite.
C15_Witness ==
    \E i \in 1..Len(ops) :
        /\ Returned(i, "move")
        /\ ops[i].result = "ok"
        /\ ops[i].source = Uri("mem", TRUE, <<"d">>)
        /\ ops[i].resource = Uri("mem", TRUE, <<"s">>)
        /\ ops[i].fired = <<"DELETE", "MOVE">>
        /\ files[<<"P1", <<"s", "d", "q">> >>].content = <<4>>

\* C15 (as the claim has it): every move on one provider that succeeds has
\* renamed once, without copy or delete of the source, leaves exists(x)
\* false and exists(y) true and has fired one event, a MOVE.
C15_MoveOnOneProviderRenamesAlways ==
    \A i \in 1..Len(ops) :
        (/\ Returned(i, "move")
         /\ OnOneProvider(ops[i])
         /\ ops[i].result = "ok")
            => /\ Count(ops[i].log, "rename") = 1
               /\ Count(ops[i].log, "copy") = 0
               /\ Count(ops[i].log, "deleteSource") = 0
               /\ ops[i].task = "none"
               /\ ~Exists(ops[i].source)
               /\ Exists(ops[i].resource)
               /\ ops[i].fired = <<"MOVE">>

\* The doCopyFile and doCopyFolder that the copy started have all returned.
CopyCompleted(i) ==
    /\ ops[i].nested
    /\ ops[i].error = "none"
    /\ \A k \in 1..Len(ops) :
          ops[k].parent # 0 => ops[k].pc = "done" /\ ops[k].result = "ok"

\* C16: a move from one provider to another calls del(source) only when
\* its copy has returned without error, and then the target holds what the
\* source holds; a move that has not called del(source) leaves the source
\* provider's files as they were; a move that succeeds has deleted the
\* source, and the one event it fires for itself is a COPY.
C16_MoveAcrossProvidersCopiesThenDeletes ==
    \A i \in 1..Len(ops) :
        (TopCall(i) /\ ops[i].kind = "move" /\ ~OnOneProvider(ops[i]))
            => LET op == ops[i]
                   sp == provider[op.source.scheme]
                   deleting == op.deleting = "source"
                   deleted == Count(op.log, "deleteSource") > 0
               IN /\ (deleting \/ deleted) => CopyCompleted(i)
                  /\ (deleting /\ op.pc # "done") =>
                         SameTree(sp, op.source, op.provider, op.resource)
                  /\ ~deleted =>
                         \E target \in BOOLEAN :
                             \A f \in Paths : files[<<sp, f>>] = TreeFiles(target)[<<sp, f>>]
                  /\ (op.pc = "done" /\ op.result = "ok") =>
                         /\ Count(op.log, "deleteSource") = 1
                         /\ ~Exists(op.source)
                         /\ Exists(op.resource)
                         /\ Count(op.fired, "MOVE") = 0
                         /\ op.fired[Len(op.fired)] = "COPY"

\* A folder has been moved from src to mem, onto a folder that was there.
C16_Witness ==
    \E i \in 1..Len(ops) :
        /\ Returned(i, "move")
        /\ ops[i].result = "ok"
        /\ ops[i].source = Uri("src", TRUE, <<"d">>)
        /\ ops[i].resource = Uri("mem", TRUE, <<"s">>)
        /\ ops[i].log = <<"delete", "mkdir", "deleteSource">>
        /\ files[<<"P1", <<"s", "d", "q">> >>].content = <<4>>
        /\ files[<<"P2", <<"d", "d", "q">> >>].type = "none"

\* C17: a copy(s, t) of two equal strings issues no mkdir, delete, copy or
\* rename, starts no write and changes no file, and returns as copy does
\* (COPY is fired when the resource is there); a copy on one provider that
\* lacks PathCaseSensitive between two paths that differ in case only fails
\* and has not issued any of these either.
C17_CopyOntoItself ==
    \A i \in 1..Len(ops) :
        (TopCall(i) /\ ops[i].kind = "copy" /\ Accepted(ops[i]))
            => /\ ops[i].source = ops[i].resource =>
                    /\ NothingMutated(i)
                    /\ ops[i].pc = "done" =>
                          IF Exists(ops[i].resource)
                            THEN ops[i].result = "ok" /\ ops[i].fired = <<"COPY">>
                            ELSE ops[i].result = "FILE_NOT_FOUND" /\ ops[i].fired = <<>>
               /\ DiffersInCaseOnly(ops[i]) =>
                    /\ NothingMutated(i)
                    /\ ops[i].fired = <<>>
                    /\ ops[i].pc = "done" => ops[i].result = "unableToMoveCopyError1"

\* A copy of q onto Q has failed on a provider that ignores case.
C17_Witness ==
    \E i \in 1..Len(ops) :
        /\ Returned(i, "copy")
        /\ ops[i].source = Uri("mem", TRUE, <<"q">>)
        /\ ops[i].resource = Uri("mem", TRUE, <<"Q">>)
        /\ ops[i].result = "unableToMoveCopyError1"

\* C18 (as the code has it): a move or copy without overwrite whose target
\* was there, and whose source is not, on one provider, the target or a
\* folder above it, fails with FILE_MOVE_CONFLICT; it issues no delete,
\* mkdir, rename or copy, starts no write, and fires no event.
C18_ExistingTargetIsAConflict ==
    \A i \in 1..Len(ops) :
        (/\ TopCall(i)
         /\ Accepted(ops[i])
         /\ ops[i].targetExisted
         /\ ~ops[i].overwrite
         /\ ~SourceIsTargetOrAbove(ops[i]))
            => /\ NothingMutated(i)
               /\ ops[i].fired = <<>>
               /\ ops[i].pc = "done" => ops[i].result = "FILE_MOVE_CONFLICT"

\* A copy from src onto a folder of mem has failed as a conflict.
C18_Witness ==
    \E i \in 1..Len(ops) :
        /\ Returned(i, "copy")
        /\ ops[i].source = Uri("src", TRUE, <<"d">>)
        /\ ops[i].resource = Uri("mem", TRUE, <<"d">>)
        /\ ~ops[i].overwrite
        /\ ops[i].result = "FILE_MOVE_CONFLICT"

\* C18 (as the claim has it): every move or copy without overwrite whose
\* target was there and is not the source in another case fails with
\* FILE_MOVE_CONFLICT, with nothing issued and no event.
C18_ExistingTargetIsAlwaysAConflict ==
    \A i \in 1..Len(ops) :
        (/\ TopCall(i)
         /\ Accepted(ops[i])
         /\ ops[i].targetExisted
         /\ ~ops[i].overwrite
         /\ ~DiffersInCaseOnly(ops[i]))
            => /\ NothingMutated(i)
               /\ ops[i].fired = <<>>
               /\ ops[i].pc = "done" => ops[i].result = "FILE_MOVE_CONFLICT"

\* The target is a folder above the source.
TargetAboveSource(op) ==
    TargetIsSourceOrAbove(op) /\ Len(op.resource.segs) < Len(op.source.segs)

\* The source is a folder above the target.
SourceAboveTarget(op) ==
    SourceIsTargetOrAbove(op) /\ Len(op.source.segs) < Len(op.resource.segs)

\* C19 (as the code has it): a move or copy on one provider whose target
\* was there and is a folder above the source fails in the validation,
\* without overwrite as a FILE_MOVE_CONFLICT and with it as a file that
\* would replace its folder, and nothing is issued to the provider.
C19_TargetAboveSourceIsRefused ==
    \A i \in 1..Len(ops) :
        (/\ TopCall(i)
         /\ Accepted(ops[i])
         /\ ops[i].targetExisted
         /\ TargetAboveSource(ops[i]))
            => /\ NothingMutated(i)
               /\ ops[i].fired = <<>>
               /\ ops[i].pc = "done" =>
                     ops[i].result = IF ops[i].overwrite THEN "unableToMoveCopyError4"
                                     ELSE "FILE_MOVE_CONFLICT"

\* A move of d/q onto d with overwrite has been refused.
C19_Witness ==
    \E i \in 1..Len(ops) :
        /\ Returned(i, "move")
        /\ ops[i].source = Uri("mem", TRUE, <<"d", "q">>)
        /\ ops[i].resource = Uri("mem", TRUE, <<"d">>)
        /\ ops[i].overwrite
        /\ ops[i].result = "unableToMoveCopyError4"

\* C19 (as the claim has it): every move or copy on one provider whose
\* target is the source or a folder above it, and not the source in
\* another case, fails, with nothing issued to the provider.
C19_TargetIsOrAboveSourceIsRefused ==
    \A i \in 1..Len(ops) :
        (/\ TopCall(i)
         /\ Accepted(ops[i])
         /\ ~DiffersInCaseOnly(ops[i])
         /\ TargetIsSourceOrAbove(ops[i]))
            => /\ NothingMutated(i)
               /\ ops[i].pc = "done" => ops[i].result # "ok"

\* del(target) has been called for the move or copy.
TargetDeletion(op) == op.deleting = "target" \/ Count(op.log, "delete") > 0

\* C20 (as the code has it): a move or copy on one provider with overwrite
\* onto a target that was there fails when the source is a folder above the
\* target, with nothing issued; it does not call del(target) when source
\* and target are one resource; and whenever it calls del(target), the
\* target is neither the source nor a folder above it.
C20_OverwriteSparesTheSource ==
    \A i \in 1..Len(ops) :
        (/\ TopCall(i)
         /\ Accepted(ops[i])
         /\ OnOneProvider(ops[i])
         /\ ops[i].overwrite
         /\ ops[i].targetExisted)
            => /\ SourceAboveTarget(ops[i]) =>
                    /\ NothingMutated(i)
                    /\ ~TargetDeletion(ops[i])
                    /\ ops[i].pc = "done" => ops[i].result = "unableToMoveCopyError2"
               /\ SameResource(ops[i]) => ~TargetDeletion(ops[i])
               /\ TargetDeletion(ops[i]) => ~TargetIsSourceOrAbove(ops[i])

\* A copy of d onto d/q with overwrite has been refused.
C20_Witness ==
    \E i \in 1..Len(ops) :
        /\ Returned(i, "copy")
        /\ ops[i].source = Uri("mem", TRUE, <<"d">>)
        /\ ops[i].resource = Uri("mem", TRUE, <<"d", "q">>)
        /\ ops[i].overwrite
        /\ ops[i].result = "unableToMoveCopyError2"

\* C20 (as the claim has it): every move or copy on one provider with
\* overwrite onto a target that was there fails without a del(target) when
\* the source is the target or a folder above it, and no del(target)
\* removes the source.
C20_OverwriteFailsForSourceAtOrAboveTarget ==
    \A i \in 1..Len(ops) :
        (/\ TopCall(i)
         /\ Accepted(ops[i])
         /\ OnOneProvider(ops[i])
         /\ ops[i].overwrite
         /\ ops[i].targetExisted)
            => /\ SourceIsTargetOrAbove(ops[i]) =>
                    /\ ~TargetDeletion(ops[i])
                    /\ ops[i].pc = "done" => ops[i].result # "ok"
               /\ TargetDeletion(ops[i]) => ~TargetIsSourceOrAbove(ops[i])

\* -------------------------------------------------------------------- del
DelUris ==
    {Uri("mem", TRUE, segs) : segs \in {<<"q">>, <<"d">>, <<"d", "d">>, <<"d", "d", "q">>,
                                        <<"d", "s">>}}

\* mem is served by P1, with or without Trash, readonly or not.
DelCapabilities ==
    {{FileReadWrite, PathCaseSensitive} \cup trash \cup readonly :
        trash \in {{}, {Trash}}, readonly \in {{}, {Readonly}}}

InitDel ==
    /\ InitService([s \in Schemes |-> IF s = "mem" THEN "P1" ELSE "P2"])
    /\ \E c \in DelCapabilities : capabilities = [p \in Providers |-> c]
    /\ files = TreeFiles(FALSE)

\* One del after the other; provider.readdir may throw.
NextDel ==
    \/ \E r \in DelUris, recursive \in BOOLEAN, useTrash \in BOOLEAN :
          Alone /\ del(r, recursive, useTrash)
    \/ \E i \in 1..MaxCalls :
          \/ delResolved(i)
          \/ delExistsReturns(i)
          \/ \E ok \in BOOLEAN : delResolveReturns(i, ok)
          \/ deleteReturns(i)

SpecDel == InitDel /\ [][NextDel]_vars

\* What del checks before provider.delete holds of call i now.
DelIsValid(i) ==
    LET op == ops[i]
        p == provider[op.resource.scheme]
    IN /\ op.useTrash => Trash \in capabilities[p]
       /\ Exists(op.resource)
       /\ op.recursive \/ providerReaddir(files, p, op.resource) = {}

\* C21: del calls provider.delete only when the provider has Trash for a
\* del with useTrash, the resource is there, and the del is recursive or
\* the resource has no children; a del that fails for one of these has not
\* called provider.delete and has fired no DELETE.
C21_DeleteOnlyWhenValid ==
    \A i \in 1..Len(ops) :
        ops[i].kind = "del" =>
            /\ ops[i].pc = "delete" => DelIsValid(i)
            /\ (ops[i].pc = "done" /\ ~DelIsValid(i) /\ Exists(ops[i].resource)) =>
                  /\ ops[i].result # "ok"
                  /\ ops[i].log = <<>>
                  /\ ops[i].fired = <<>>
            /\ (ops[i].pc = "done" /\ ops[i].result = "FILE_NOT_FOUND") =>
                  ops[i].log = <<>> /\ ops[i].fired = <<>>

\* ------------------------------------------------- createFile and writeFile
\* The resources written: s/q has no folder to be in yet, d/s has its
\* folder but is not there, and q is a file.
CreateUris ==
    {Uri("mem", TRUE, segs) : segs \in {<<"s", "q">>, <<"d", "s">>, <<"q">>}}

\* What the i-th call writes: five bytes, as a buffer or in two chunks
HelloInputs(i) ==
    {[kind |-> "buffer", chunks |-> << <<i, 2, 3, 4, 5>> >>],
     [kind |-> "readable", chunks |-> << <<i, 2>>, <<3, 4, 5>> >>]}

\* Nothing is registered yet.
InitCreate ==
    /\ InitService([s \in Schemes |-> NoProvider])
    /\ \E c \in {{FileReadWrite}, {FileOpenReadWriteClose}} :
          capabilities = [p \in Providers |-> c \cup {PathCaseSensitive}]
    /\ files = TreeFiles(FALSE)

\* The one call so far is a createFile that awaits exists(r).
Creating(r) ==
    Len(ops) = 1 /\ ops[1].pc = "createExists" /\ ops[1].resource = r

\* P1 is registered for mem, and then the calls are made: writeFile when no
\* other call is under way, createFile also while a first createFile of
\* the resource awaits its exists, and readFile of what the last call wrote when all of these are done.
NextCreate ==
    \/ provider["mem"] = NoProvider /\ registerProvider("mem", "P1")
    \/ \E r \in CreateUris, input \in HelloInputs(Len(ops) + 1) :
          /\ provider["mem"] # NoProvider
          /\ \/ Alone /\ Unread /\ writeFile(r, input, NoOptions)
             \/ \E overwrite \in BOOLEAN :
                   (Alone \/ Creating(r)) /\ Unread /\ createFile(r, input, overwrite)
    \/ \E r \in CreateUris :
          /\ Alone
          /\ ops # <<>> /\ ops[Len(ops)].resource = r
          /\ readFile(r, [position |-> Undefined, length |-> Undefined])
    \/ \E i \in 1..(MaxWrites + MaxReads) :
          \/ createExistsReturns(i)
          \/ StepsWriteFile(i)
          \/ mkdirpStatReturns(i)
          \/ mkdirReturns(i)
          \/ openReturns(i, TRUE)
          \/ writeReturns(i, TRUE, ops[i].length - ops[i].totalBytesWritten)
          \/ closeReturns(i, TRUE)
          \/ writeFileReturns(i, TRUE)
          \/ resolveReturns(i)
          \/ readFileResolved(i)
          \/ readFileUnbufferedReturns(i)
          \/ readFileStreamReturns(i)

SpecCreate == InitCreate /\ [][NextCreate]_vars

\* C22: with a provider registered for mem, a writeFile of five bytes to a
\* resource that was not there and that has succeeded leaves the resource
\* there, a readFile after it returns the five bytes, and onAfterOperation
\* has been fired for it with the operation CREATE.
C22_WriteFileCreatesAndFiresCreate ==
    \A i \in 1..Len(ops) :
        (/\ ops[i].kind = "writeFile" /\ ~ops[i].create
         /\ ops[i].pc = "done" /\ ops[i].result = "ok"
         /\ ops[i].stat.type = "none")
            => /\ Exists(ops[i].resource)
               /\ \A j \in (i + 1)..Len(ops) :
                     (/\ ops[j].kind = "readFile" /\ ops[j].pc = "done"
                      /\ ops[j].resource = ops[i].resource /\ LastWrite(j) = i)
                         => ops[j].result = "ok" /\ ops[j].buffer = Payload(ops[i])
               /\ ops[i].fired = <<"CREATE">>
               /\ onAfterOperation.fired > 0

\* Call i is a createFile without overwrite.
CreatesOnly(i) == ops[i].kind = "writeFile" /\ ops[i].create /\ ~ops[i].overwrite

\* C23: a createFile without overwrite never replaces a file: for a
\* resource that is there it fails with FILE_MODIFIED_SINCE, without a
\* write and without a CREATE, and of the createFile calls without
\* overwrite for one resource that was not there at most one succeeds,
\* however the calls interleave.
C23_CreateFileNeverReplaces ==
    \A i \in 1..Len(ops) :
        CreatesOnly(i) =>
            /\ (ops[i].pc = "done" /\ ops[i].result = "FILE_MODIFIED_SINCE") =>
                  /\ ops[i].writes = 0
                  /\ ops[i].task = "none"
                  /\ ops[i].fired = <<>>
            /\ \A j \in 1..Len(ops) :
                  (/\ j # i
                   /\ CreatesOnly(j)
                   /\ ops[j].resource = ops[i].resource
                   /\ TreeFiles(FALSE)[fileOf("P1", ops[i].resource)].type = "none")
                      => ~(/\ ops[i].pc = "done" /\ ops[i].result = "ok"
                           /\ ops[j].pc = "done" /\ ops[j].result = "ok")

\* --------------------------------------------------- onAfterOperation events
EventUris ==
    {Uri("mem", TRUE, segs) : segs \in {<<"q">>, <<"d", "s">>, <<"s", "q">>, <<"d", "d">>}}

\* One call in a run: a move or copy as in the runs of trees, or a
\* createFile, createFolder or del.
NextEvents ==
    \/ NextTree
    \/ \E r \in EventUris :
          /\ ops = <<>>
          /\ \/ \E overwrite \in BOOLEAN :
                   createFile(r, [kind |-> "buffer", chunks |-> << <<7>> >>], overwrite)
             \/ createFolder(r)
             \/ \E recursive \in BOOLEAN : del(r, recursive, FALSE)
    \/ \E i \in 1..Len(ops) :
          \/ createExistsReturns(i)
          \/ StepsWriteFile(i)
          \/ createFolderResolved(i)
          \/ delResolved(i)
          \/ delResolveReturns(i, TRUE)

SpecEvents == InitTree /\ [][NextEvents]_vars

\* Call i is a createFile, createFolder, move, copy or del made of the
\* service.
FiresEvent(i) ==
    /\ ops[i].parent = 0
    /\ \/ ops[i].kind \in {"createFolder", "move", "copy", "del"}
       \/ ops[i].kind = "writeFile" /\ ops[i].create

\* The operation of the event that call i fires for itself.
OwnOperation(i) ==
    CASE ops[i].kind = "del" -> {"DELETE"}
      [] ops[i].kind \in {"move", "copy"} -> {"MOVE", "COPY"}
      [] OTHER -> {"CREATE"}

\* The events call i fired on behalf of the del it called for the target
\* it overwrites or for the source it moved to another provider.
FiredByDel(i, events) ==
    /\ \A k \in 1..Len(events) : events[k] = "DELETE"
    /\ events # <<>> => ops[i].kind \in {"move", "copy"}
    /\ Len(events) <= Count(ops[i].log, "delete") + Count(ops[i].log, "deleteSource")

\* What call i was to bring about is there.
Mutated(i) ==
    IF ops[i].kind = "del" THEN ~Exists(ops[i].resource) ELSE Exists(ops[i].resource)

\* C24: a createFile, createFolder, move, copy or del that succeeds fires
\* its own onAfterOperation event once, as the last thing before it
\* returns and with the provider changed; a call that fails fires no event
\* of its own.  The only other events of a call are the DELETE events of
\* the del that move and copy call for a target they overwrite and for the
\* source of a move to another provider.
C24_OwnEventOncePerSuccess ==
    \A i \in 1..Len(ops) :
        FiresEvent(i) =>
            IF ops[i].pc = "done" /\ ops[i].result = "ok"
              THEN /\ ops[i].fired # <<>>
                   /\ ops[i].fired[Len(ops[i].fired)] \in OwnOperation(i)
                   /\ FiredByDel(i, SubSeq(ops[i].fired, 1, Len(ops[i].fired) - 1))
                   /\ Mutated(i)
              ELSE FiredByDel(i, ops[i].fired)

\* A move that overwrote its target has returned: DELETE, then MOVE.
C24_Witness ==
    \E i \in 1..Len(ops) :
        /\ FiresEvent(i)
        /\ ops[i].pc = "done" /\ ops[i].result = "ok"
        /\ ops[i].fired = <<"DELETE", "MOVE">>

\* C24 as stated: one event in a call that succeeds, none in a call that
\* fails.
C24_OneEventPerSuccessNoneOnFailure ==
    \A i \in 1..Len(ops) :
        (FiresEvent(i) /\ ops[i].pc = "done") =>
            Len(ops[i].fired) = (IF ops[i].result = "ok" THEN 1 ELSE 0)

\* ------------------------------------------------------------------ onError
\* One call in a run, and the providers report errors of their own.
NextErrors ==
    \/ NextEvents
    \/ \E p \in Providers : providerFires(p, "onDidErrorOccur")

SpecErrors == InitTree /\ [][NextErrors]_vars

\* C25: when a call of the service has failed, onError has fired.
C25_ErrorsFireOnError ==
    \A i \in 1..Len(ops) :
        (ops[i].parent = 0 /\ ops[i].pc = "done" /\ ops[i].result # "ok")
            => forwarded.onError > 0

\* --------------------------------------------------------- activateProvider
\* activateProvider of call i has returned.
Activated(i) == ops[i].activations > 0 /\ ops[i].pc # "joining"

\* C26: activateProvider fires onWillActivateFileSystemProvider once; when
\* no provider is bound to the scheme after the event it returns only when
\* every promise joined has settled, and when one is bound it returns at
\* once, whatever was joined.
C26_ActivationAwaitsJoinersOfUnboundScheme ==
    \A i \in 1..Len(ops) :
        /\ ops[i].activations <= 1
        /\ (ops[i].pc # "start" /\ ops[i].result # "FILE_INVALID_PATH")
              => ops[i].activations = 1
        /\ (Activated(i) /\ ~ops[i].has) => ops[i].pendingJoin = 0
        /\ ops[i].has => ops[i].pc # "joining"

\* An activation for a scheme without provider has returned after the
\* promise joined to it settled.
C26_Witness ==
    \E i \in 1..Len(ops) :
        /\ Activated(i) /\ ~ops[i].has
        /\ ops[i].joined > 0 /\ ops[i].pendingJoin = 0
        /\ ops[i].pc = "done"

\* C26 as stated: activateProvider returns only when every promise joined
\* has settled, a provider bound or not.
C26_ActivationAwaitsAllJoiners ==
    \A i \in 1..Len(ops) : Activated(i) => ops[i].pendingJoin = 0

\* ------------------------------------------------- disposing a registration
\* mem is served by P1.  A watch of mem:///q is started and disposed, P1
\* fires its events, and the handle of P1's registration is disposed.
NextUnregister ==
    \/ \E h \in 1..MaxRegs : disposeRegistration(h)
    \/ \E event \in DOMAIN Forwarding : providerFires("P1", event)
    \/ watches = <<>> /\ watch(Uri("mem", TRUE, <<"q">>), [recursive |-> FALSE, excludes |-> <<>>])
    \/ doWatch(1) \/ watchThen(1) \/ disposeWatch(1)

SpecUnregister == InitWatch /\ [][NextUnregister]_vars

\* The service's emitters fired no event in the step.
NothingForwarded ==
    \A event \in DOMAIN Forwarding :
        forwarded'[Forwarding[event]] = forwarded[Forwarding[event]]

\* The step that disposes handle h fires {added: false} for its scheme and
\* provider and unbinds the scheme; once the handle is disposed, no event of
\* its provider is forwarded.
Unregisters(h) ==
    LET r == registrations[h] IN
    /\ disposeRegistration(h) =>
          /\ regEvents'.fired = regEvents.fired + 1
          /\ regEvents'.last = [added |-> FALSE, scheme |-> r.scheme, provider |-> r.provider]
          /\ provider'[r.scheme] = NoProvider
    /\ r.disposals > 0 =>
          \A event \in DOMAIN Forwarding :
              providerFires(r.provider, event) => NothingForwarded

\* C27: the step that disposes a registration handle fires the removal
\* event and unbinds the scheme, later events of the provider are not
\* forwarded, and once the handle is disposed no record of activeWatchers
\* is one of a watch that was started on its provider.
C27_DisposedRegistrationIsTornDown ==
    [][\A h \in 1..Len(registrations) :
          /\ Unregisters(h)
          /\ registrations'[h].disposals > 0 =>
                \A k \in DOMAIN activeWatchers' :
                    watchers'[activeWatchers'[k]].provider # registrations[h].provider]_vars

\* ------------------------------------------------------ doReadAsFileStream
\* The await of statPromise before the read: for an etag that is a string
\* and not ETAG_DISABLED.
awaitsValidation(options) ==
    typeofString(options.etag) /\ options.etag # ETAG_DISABLED

\* The read begins: provider.readFile is called by readFileUnbuffered,
\* provider.readFileStream by readFileStreamed, and readFileBuffered makes
\* the stream that opens the file; then Promise.all is awaited.
startRead(w, i) ==
    LET path == readPath(w.ops[i].provider, w.ops[i].preferUnbuffered) IN
    [w EXCEPT !.ops[i].path = path, !.ops[i].reading = "inFlight",
              !.ops[i].log = Append(@, path), !.ops[i].calls = @ + 1,
              !.ops[i].pc = "all"]

\* doReadAsFileStream that reads without awaiting the validation
doReadAsFileStream_neverAwaits(i) ==
    /\ i \in 1..Len(ops)
    /\ ops[i].kind \in {"readFile", "readFileStream"}
    /\ ops[i].pc = "lookup"
    /\ LET op == withReadProvider(ops[i])
           w == [World EXCEPT !.ops[i] = [op EXCEPT !.validation = "stat", !.calls = @ + 1]]
       IN Becomes(IF op.pc = "done" THEN [World EXCEPT !.ops[i] = op]
                  ELSE startRead(w, i))
    /\ UNCHANGED <<quiet, faults>>

\* doReadAsFileStream, after withReadProvider: validateReadFile is started
\* (its stat is under way); with an etag its end is awaited, else the read
\* begins at once.
doReadAsFileStream(i) ==
    /\ i \in 1..Len(ops)
    /\ ops[i].kind \in {"readFile", "readFileStream"}
    /\ ops[i].pc = "lookup"
    /\ LET op == withReadProvider(ops[i])
           w == [World EXCEPT !.ops[i] = [op EXCEPT !.validation = "stat", !.calls = @ + 1]]
       IN Becomes(IF op.pc = "done" THEN [World EXCEPT !.ops[i] = op]
                  ELSE IF awaitsValidation(op.options) THEN [w EXCEPT !.ops[i].pc = "validate"]
                  ELSE startRead(w, i))
    /\ UNCHANGED <<quiet, faults>>

\* validateReadFile: the error it throws, or "ok".
validateReadFile(w, i) ==
    LET op == w.ops[i]
        stat == providerStat(w.files, op.provider, op.resource)
    IN IF stat.type = "none" THEN "FILE_NOT_FOUND"
       ELSE IF stat.type = "dir" THEN "FILE_IS_DIRECTORY"
       ELSE IF awaitsValidation(op.options) /\ op.options.etag = etag(stat)
         THEN "FILE_NOT_MODIFIED_SINCE"
       ELSE "ok"

\* Promise.all([statPromise, fileStreamPromise]) is fulfilled and
\* doReadAsFileStream returns the stream: to the caller of readFileStream,
\* or to readFile, which awaits streamToBuffer.
readAll(w, i) ==
    LET op == w.ops[i] IN
    IF op.kind = "readFileStream" \/ op.reading = "ended" THEN settle(w, i, "ok")
    ELSE IF op.reading = "failed" THEN settle(w, i, "FILE_OTHER_ERROR")
    ELSE [w EXCEPT !.ops[i].pc = "streamToBuffer"]

\* validateReadFileReturns whose error leaves the token alone
validateReadFileReturns_noCancel(i) ==
    /\ i \in 1..Len(ops)
    /\ ops[i].validation = "stat"
    /\ LET v == validateReadFile(World, i)
           op == ops[i]
           w == [World EXCEPT !.ops[i].validation = v]
       IN Becomes(IF op.pc = "done" THEN w
                  ELSE IF v # "ok" THEN settle(w, i, v)
                  ELSE IF op.pc = "validate" THEN startRead(w, i)
                  ELSE IF op.path = "readFileUnbuffered" /\ op.reading = "inFlight" THEN w
                  ELSE readAll(w, i))
    /\ UNCHANGED <<quiet, faults>>

\* validateReadFile returns or throws: an error cancels the token and
\* rejects the call, at the await of statPromise or at Promise.all; else
\* the read begins, or Promise.all goes on waiting for provider.readFile,
\* or is fulfilled.
validateReadFileReturns(i) ==
    /\ i \in 1..Len(ops)
    /\ ops[i].validation = "stat"
    /\ LET v == validateReadFile(World, i)
           op == ops[i]
           w == [World EXCEPT !.ops[i].validation = v, !.ops[i].cancelled = (v # "ok")]
       IN Becomes(IF op.pc = "done" THEN w
                  ELSE IF v # "ok" THEN settle(w, i, v)
                  ELSE IF op.pc = "validate" THEN startRead(w, i)
                  ELSE IF op.path = "readFileUnbuffered" /\ op.reading = "inFlight" THEN w
                  ELSE readAll(w, i))
    /\ UNCHANGED <<quiet, faults>>

\* provider.readFile(resource) returns to readFileUnbuffered, or throws:
\* for a resource that is no file, or for a fault.  An error rejects
\* Promise.all.
providerReadFileReturns(i, ok) ==
    /\ i \in 1..Len(ops)
    /\ ops[i].reading = "inFlight"
    /\ ops[i].path = "readFileUnbuffered"
    /\ LET op == ops[i]
           file == files[fileOf(op.provider, op.resource)]
           read == [World EXCEPT !.ops[i].reading = "ended",
                                 !.ops[i].buffer = readFileUnbuffered(file.content, op.options)]
           failed == [World EXCEPT !.ops[i].reading = "failed"]
       IN Becomes(IF ok /\ file.type = "file"
                    THEN IF op.pc = "all" /\ op.validation = "ok" THEN readAll(read, i)
                         ELSE read
                    ELSE IF op.pc = "all" THEN settle(failed, i, "FILE_OTHER_ERROR")
                         ELSE failed)
    /\ Faulted(ok)
    /\ UNCHANGED quiet

\* The stream of readFileStreamed or readFileBuffered is over: it ends
\* with the file's bytes, or with an error (for a resource that is no
\* file, or for a fault), or it has seen its token cancelled and stops.
\* readFile's streamToBuffer returns or throws when it is awaited.
readStreamEnds(i, ok) ==
    /\ i \in 1..Len(ops)
    /\ ops[i].reading = "inFlight"
    /\ ops[i].path \in {"readFileStreamed", "readFileBuffered"}
    /\ LET op == ops[i]
           file == files[fileOf(op.provider, op.resource)]
           read == [World EXCEPT !.ops[i].reading = "ended",
                                 !.ops[i].buffer = readFileStreamed(file.content, op.options)]
           failed == [World EXCEPT !.ops[i].reading = "failed"]
       IN Becomes(IF op.cancelled THEN [World EXCEPT !.ops[i].reading = "cancelled"]
                  ELSE IF ok /\ file.type = "file"
                    THEN IF op.pc = "streamToBuffer" THEN settle(read, i, "ok") ELSE read
                    ELSE IF op.pc = "streamToBuffer"
                           THEN settle(failed, i, "FILE_OTHER_ERROR")
                         ELSE failed)
    /\ Faulted(ok)
    /\ UNCHANGED quiet

ReadUris == {Uri("mem", TRUE, segs) : segs \in {<<"q">>, <<"d">>, <<"s">>}}

\* No etag, etags disabled, the etag of mem:///q, and another etag
ReadEtags ==
    {<<Undefined>>, ETAG_DISABLED, etag([mtime |-> 1000, size |-> 1]),
     etag([mtime |-> 2000, size |-> 1])}

\* mem is served by P1, with any of the capabilities of reading; mem:///q
\* is a file, mem:///d a folder, and nothing is at mem:///s.
InitRead ==
    /\ InitService([s \in Schemes |-> IF s = "mem" THEN "P1" ELSE "P2"])
    /\ \E c \in SUBSET {FileReadWrite, FileOpenReadWriteClose, FileReadStream} :
          capabilities = [p \in Providers |-> c]
    /\ files = TreeFiles(FALSE)

\* One readFile or readFileStream in a run; the read may fail.
NextRead ==
    \/ \E r \in ReadUris, e \in ReadEtags :
          /\ ops = <<>>
          /\ LET options == [position |-> Undefined, length |-> Undefined, etag |-> e]
             IN readFile(r, options) \/ readFileStream(r, options)
    \/ \E i \in 1..MaxReads :
          \/ doReadAsFileStream(i)
          \/ validateReadFileReturns(i)
          \/ \E ok \in BOOLEAN : providerReadFileReturns(i, ok)
          \/ \E ok \in BOOLEAN : readStreamEnds(i, ok)

SpecRead == InitRead /\ [][NextRead]_vars

\* Call i is a read that has come to the choice of how to read.
Reads(i) == ops[i].kind \in {"readFile", "readFileStream"} /\ ops[i].path # "none"

\* C28: a read is unbuffered when its provider has neither
\* FileOpenReadWriteClose nor FileReadStream, or has FileReadWrite and the
\* read prefers unbuffered (readFile does, readFileStream does not); else
\* streamed when the provider has FileReadStream; else buffered.  A read
\* takes one of the three, once.
C28_ReadPathSelection ==
    \A i \in 1..Len(ops) :
        Reads(i) =>
            LET c == capabilities[ops[i].provider]
                prefers == ops[i].kind = "readFile"
                unbuffered == \/ (FileOpenReadWriteClose \notin c /\ FileReadStream \notin c)
                              \/ (FileReadWrite \in c /\ prefers)
            IN /\ ops[i].log = <<ops[i].path>>
               /\ ops[i].path = "readFileUnbuffered" <=> unbuffered
               /\ ops[i].path = "readFileStreamed" <=> (~unbuffered /\ FileReadStream \in c)
               /\ ops[i].path = "readFileBuffered" <=> (~unbuffered /\ FileReadStream \notin c)
               /\ c # {}

\* A readFileStream of a provider with FileReadWrite and FileReadStream has
\* returned: it was streamed.
C28_Witness ==
    \E i \in 1..Len(ops) :
        /\ Reads(i)
        /\ ops[i].kind = "readFileStream" /\ ops[i].pc = "done"
        /\ {FileReadWrite, FileReadStream} \subseteq capabilities[ops[i].provider]
        /\ ops[i].path = "readFileStreamed"

\* Call i is a read with an etag that makes it await its validation.
ReadsWithEtag(i) ==
    ops[i].kind \in {"readFile", "readFileStream"} /\ awaitsValidation(ops[i].options)

\* C29: a read with an etag other than ETAG_DISABLED calls the provider
\* for the file only when its validation has succeeded, and never when
\* the validation fails; an etag that is the file's makes it fail with
\* FILE_NOT_MODIFIED_SINCE.  A read without such an etag starts its read
\* together with its validation.
C29_EtagReadAwaitsValidation ==
    \A i \in 1..Len(ops) :
        ops[i].kind \in {"readFile", "readFileStream"} =>
            IF awaitsValidation(ops[i].options)
              THEN /\ ops[i].path # "none" => ops[i].validation = "ok"
                   /\ ops[i].validation \notin {"none", "stat", "ok"} =>
                         /\ ops[i].log = <<>>
                         /\ ops[i].pc = "done" /\ ops[i].result = ops[i].validation
                   /\ (/\ ops[i].pc = "done"
                       /\ ops[i].validation # "none"
                       /\ files[fileOf("P1", ops[i].resource)].type = "file"
                       /\ ops[i].options.etag
                             = etag(providerStat(files, "P1", ops[i].resource)))
                         => ops[i].result = "FILE_NOT_MODIFIED_SINCE"
              ELSE ops[i].validation # "none" => ops[i].path # "none"

\* A read with an etag that is not the file's reads after its validation.
C29_Witness ==
    \E i \in 1..Len(ops) :
        /\ ReadsWithEtag(i)
        /\ ops[i].validation = "ok"
        /\ ops[i].reading = "inFlight"

\* The token of call i is cancelled exactly when its validation failed.
CancelledByValidation(i) ==
    ops[i].cancelled <=> ops[i].validation \notin {"none", "stat", "ok"}

PathInputs ==
    {[kind |-> "buffer", chunks |-> << <<1, 2, 3>> >>]}
        \cup {[kind |-> k, chunks |-> c] :
                k \in {"readable", "stream"},
                c \in {<<>>, << <<1, 2>> >>, << <<1>>, <<>>, <<3>> >>,
                       << <<1>>, <<2>>, <<3>>, <<4>> >>}}

\* mem is served by P1 with any capabilities; mem:///q is a longer file, or
\* nothing is there.
InitPath ==
    /\ InitService([s \in Schemes |-> IF s = "mem" THEN "P1" ELSE "P2"])
    /\ \E t \in SUBSET {FileReadWrite, FileOpenReadWriteClose, FileReadStream} :
          capabilities = [p \in Providers |-> t]
    /\ \E old \in {NoFile, [OldFile EXCEPT !.content = <<0, 0, 0, 0, 0, 0>>]} :
          files = FilesWith(old)

\* One writeFile in a run; provider.write may write a part of what it is
\* given.
NextPath ==
    \/ \E input \in PathInputs :
          ops = <<>> /\ writeFile(Uri("mem", TRUE, <<"q">>), input, NoOptions)
    \/ StepsWriteFile(1)
    \/ consumeStreamReturns(1, TRUE)
    \/ openReturns(1, TRUE)
    \/ \E n \in {1, BUFFER_SIZE + 1} : writeReturns(1, TRUE, n)
    \/ streamData(1)
    \/ streamEnd(1)
    \/ closeReturns(1, TRUE)
    \/ writeFileReturns(1, TRUE)
    \/ resolveReturns(1)

SpecPath == InitPath /\ [][NextPath]_vars

\* Call i is a writeFile that has come to its write.
Writes(i) == ops[i].kind = "writeFile" /\ ops[i].task # "none"

\* The data of call i is a readable or a stream of at most `most` and at
\* least `least` chunks.
Exhausts(i, least, most) ==
    /\ ops[i].bufferOrReadableOrStream.kind # "buffer"
    /\ Len(ops[i].bufferOrReadableOrStream.chunks) \in least..most

\* What call i did is what its path does: the unbuffered one a single
\* provider.writeFile of all the data and no open, the positional one an
\* open, the writes and a close; and the data is in the file.
WrittenBy(i) ==
    LET op == ops[i]
        data == concat(op.bufferOrReadableOrStream.chunks)
    IN /\ op.task = "doWriteUnbufferedQueued" =>
             /\ op.handle = 0
             /\ op.buffer = data
             /\ TaskOver(op) => op.writes = 1
       /\ op.task = "doWriteBuffered" =>
             /\ op.pc # "open" => op.handle # 0
             /\ TaskOver(op) => handles[op.handle].closeCalls = 1
       /\ op.pc = "done" =>
             /\ op.result = "ok"
             /\ files[fileOf(op.provider, op.resource)].content = data

PipeContents == {<<>>, <<7>>, <<7, 8, 9>>, <<7, 8, 9, 6, 5>>}

\* Both providers open, read, write and close; src:///s is the source, and
\* mem:///q is a longer file, or nothing is there.
InitPipe ==
    /\ InitService([s \in Schemes |-> IF s = "mem" THEN "P1" ELSE "P2"])
    /\ capabilities = [p \in Providers |-> {FileOpenReadWriteClose, PathCaseSensitive}]
    /\ \E content \in PipeContents, old \in {NoFile, OldFile} :
          files = [FilesWith(old) EXCEPT ![<<"P2", <<"s">> >>].content = content]

\* One doCopyFile in a run; provider.read and provider.write give and take
\* at least one byte and at most what they are asked for.
NextPipe ==
    \/ ops = <<>> /\ doCopyFile(SourceUri, Uri("mem", TRUE, <<"q">>))
    \/ openSourceReturns(1, TRUE)
    \/ openReturns(1, TRUE)
    \/ \E n \in 0..BUFFER_SIZE : readSome(1, TRUE, n)
    \/ \E n \in 1..BUFFER_SIZE : writeReturns(1, TRUE, n)
    \/ closeReturns(1, TRUE)

SpecPipe == InitPipe /\ [][NextPipe]_vars /\ WF_vars(NextPipe)

\* The source of a run of the pipe
PipeSource == files[<<"P2", <<"s">> >>].content

\* The pipe of call i has written the source's first bytes to the target,
\* as many as it has read and written so far, and nothing else; its read
\* loop is over only when it has read all of the source.
Piped(i) ==
    LET op == ops[i]
        target == files[fileOf(op.provider, op.resource)].content
        through == op.posInFile + (IF op.pc = "write" THEN op.totalBytesWritten ELSE 0)
    IN /\ op.handle # 0 => target = SubSeq(PipeSource, 1, through)
       /\ op.pc = "write" =>
             /\ op.posInFile + op.length <= Len(PipeSource)
             /\ \A n \in 1..op.length :
                   op.buffer[op.posInBuffer + n] = PipeSource[op.posInFile + n]
       /\ op.pc \in {"close", "done"} =>
             /\ op.posInFile = Len(PipeSource)
             /\ target = PipeSource

\* The call has returned.
PipeIsOver == ops # <<>> /\ ops[1].pc = "done" /\ ops[1].result = "ok"

\* C32: the pipe from a handle to a handle writes the source's bytes to
\* the target in their order, each at its offset, whatever part of the
\* buffer each read fills and whatever part of it each write takes; it
\* ends with the read that gives no byte, and then the target is the
\* source.
C32_PipeCopiesTheSource ==
    /\ [](\A i \in 1..Len(ops) : ops[i].task = "doPipeBufferedQueued" => Piped(i))
    /\ <>PipeIsOver

\* A pipe with a read that did not fill the buffer and a write that did
\* not empty it has copied a source longer than two buffers.
C32_Witness ==
    /\ PipeIsOver
    /\ Len(PipeSource) > 2 * BUFFER_SIZE
    /\ ops[1].writes > Len(PipeSource) \div BUFFER_SIZE + 1
    /\ files[<<"P1", <<"q">> >>].content = PipeSource

\* ------------------------------------------------ doWriteStreamBufferedQueued
\* The stream of a call is a WriteableStream (stream.ts): it is flowing or
\* paused, keeps the data written to it while it is paused, and remembers
\* an end() that came while it was paused.  The producer writes the chunks
\* of the call's input to it and ends it.

\* The 'data' listener of doWriteStreamBufferedQueued is called with a
\* chunk: it pauses the stream and awaits doWriteBuffer, which calls
\* provider.write unless the chunk is empty.
emitData(w, i, chunk) ==
    LET w1 == [w EXCEPT !.ops[i].stream.flowing = FALSE,
                        !.ops[i].buffer = chunk, !.ops[i].length = Len(chunk),
                        !.ops[i].posInBuffer = 0, !.ops[i].totalBytesWritten = 0]
    IN IF Len(chunk) = 0 THEN [w1 EXCEPT !.ops[i].handler = "written"]
       ELSE [w1 EXCEPT !.ops[i].handler = "writing", !.ops[i].inFlight = @ + 1,
                       !.ops[i].calls = @ + 1]

\* The 'end' listener is called: the promise of
\* doWriteStreamBufferedQueued resolves, and the finally of doWriteBuffered
\* calls provider.close.
emitEnd(w, i) ==
    IF w.ops[i].pc = "stream" THEN closeHandles(w, i) ELSE w

\* WriteableStream.resume(): a paused stream flows again and emits what it
\* kept, the data as one chunk and then the end.
resume(w, i) ==
    LET s == w.ops[i].stream
        w1 == [w EXCEPT !.ops[i].stream.flowing = TRUE]
        w2 == IF s.data = <<>> THEN w1
              ELSE emitData([w1 EXCEPT !.ops[i].stream.data = <<>>], i, concat(s.data))
    IN IF s.flowing THEN w
       ELSE IF s.ended /\ s.listening THEN emitEnd(w2, i)
       ELSE w2

\* doWriteStreamBufferedQueued, entered in the same stretch of code in
\* which provider.open returned: on('data') makes the stream flow, and
\* on('end') emits an end that has come if the stream is flowing.
listen(i) ==
    /\ i \in 1..Len(ops)
    /\ ops[i].pc = "stream"
    /\ ~ops[i].stream.listening
    /\ LET w1 == resume(World, i)
           w2 == [w1 EXCEPT !.ops[i].stream.listening = TRUE]
       IN Becomes(IF w2.ops[i].stream.flowing /\ w2.ops[i].stream.ended
                    THEN emitEnd(w2, i) ELSE w2)
    /\ UNCHANGED <<quiet, faults>>

\* Between provider.open's return and the listeners no other code runs.
Listens(i) == ops[i].pc = "stream" => ops[i].stream.listening

\* The producer writes the next chunk to the stream: a flowing stream
\* hands it to the listener, a paused one keeps it.
streamWrite(i) ==
    /\ i \in 1..Len(ops)
    /\ ops[i].input.kind = "stream"
    /\ ops[i].task = "doWriteBuffered"
    /\ Listens(i)
    /\ ~ops[i].stream.ended
    /\ ops[i].consumedChunks < Len(ops[i].input.chunks)
    /\ LET chunk == ops[i].input.chunks[ops[i].consumedChunks + 1]
           w1 == [World EXCEPT !.ops[i].consumedChunks = @ + 1]
       IN Becomes(IF ops[i].stream.flowing THEN emitData(w1, i, chunk)
                  ELSE [w1 EXCEPT !.ops[i].stream.data = Append(@, chunk)])
    /\ UNCHANGED <<quiet, faults>>

\* The producer ends the stream: a flowing stream emits the end, a paused
\* one remembers it.
streamEnds(i) ==
    /\ i \in 1..Len(ops)
    /\ ops[i].input.kind = "stream"
    /\ ops[i].task = "doWriteBuffered"
    /\ Listens(i)
    /\ ~ops[i].stream.ended
    /\ ops[i].consumedChunks = Len(ops[i].input.chunks)
    /\ LET w1 == [World EXCEPT !.ops[i].stream.ended = TRUE]
       IN Becomes(IF ops[i].stream.flowing /\ ops[i].stream.listening
                    THEN emitEnd(w1, i) ELSE w1)
    /\ UNCHANGED <<quiet, faults>>

\* provider.write returns to the doWriteBuffer of the 'data' listener,
\* which calls it again for the rest; when the chunk is written, posInFile
\* moves on and the resume is left to a timeout.
written(i, bytesWritten) ==
    /\ i \in 1..Len(ops)
    /\ ops[i].handler = "writing"
    /\ bytesWritten \in 1..(ops[i].length - ops[i].totalBytesWritten)
    /\ LET op == ops[i]
           total == op.totalBytesWritten + bytesWritten
           w1 == [World EXCEPT
                    !.files = providerWrite(@, handles[op.handle].file,
                                  op.posInFile + op.totalBytesWritten, op.buffer,
                                  op.totalBytesWritten, bytesWritten),
                    !.ops[i].totalBytesWritten = total,
                    !.ops[i].writes = @ + 1]
       IN Becomes(IF total < op.length THEN [w1 EXCEPT !.ops[i].calls = @ + 1]
                  ELSE [w1 EXCEPT !.ops[i].handler = "written", !.ops[i].inFlight = @ - 1,
                                  !.ops[i].posInFile = @ + op.length])
    /\ UNCHANGED <<quiet, faults>>

\* The timeout of the 'data' listener runs: stream.resume().
resumed(i) ==
    /\ i \in 1..Len(ops)
    /\ ops[i].handler = "written"
    /\ Becomes(resume([World EXCEPT !.ops[i].handler = "idle"], i))
    /\ UNCHANGED <<quiet, faults>>

\* Streams of no chunk, of one, of two and of three with an empty one
StreamInputs ==
    {[kind |-> "stream", chunks |-> c] :
        c \in {<<>>, << <<1, 2>> >>, << <<1>>, <<2, 3>> >>, << <<1, 2>>, <<>>, <<3>> >>}}

\* mem is served by P1, which can open, write and close only.
InitStream ==
    /\ InitService([s \in Schemes |-> IF s = "mem" THEN "P1" ELSE "P2"])
    /\ capabilities = [p \in Providers |-> {FileOpenReadWriteClose, PathCaseSensitive}]
    /\ \E old \in {NoFile, OldFile} : files = FilesWith(old)

\* One writeFile of a stream in a run.
NextStream ==
    \/ \E input \in StreamInputs :
          ops = <<>> /\ writeFile(Uri("mem", TRUE, <<"q">>), input, NoOptions)
    \/ StepsWriteFile(1)
    \/ openReturns(1, TRUE)
    \/ listen(1)
    \/ streamWrite(1)
    \/ streamEnds(1)
    \/ \E n \in 1..BUFFER_SIZE : written(1, n)
    \/ resumed(1)
    \/ closeReturns(1, TRUE)
    \/ resolveReturns(1)

SpecStream == InitStream /\ [][NextStream]_vars

\* At most one provider.write of call i is under way, and it writes at
\* the offset that is the length of what was written before.
OneWriteAtItsOffset(i) ==
    LET op == ops[i] IN
    /\ op.inFlight <= 1
    /\ op.handler = "writing" =>
          /\ op.posInFile + op.totalBytesWritten
                = Len(files[handles[op.handle].file].content)
          /\ op.stream.flowing = FALSE

\* C33: while a provider.write of the 'data' listener is under way the
\* stream is paused, no other write is under way, the write is at the
\* offset that is the length of the chunks before, and provider.close has
\* not been called for the handle.
C33_StreamWritesOneAtATimeBeforeClose ==
    \A i \in 1..Len(ops) :
        (ops[i].task = "doWriteBuffered" /\ ops[i].input.kind = "stream") =>
            /\ OneWriteAtItsOffset(i)
            /\ ops[i].handler = "writing" => handles[ops[i].handle].closeCalls = 0

\* -------------------------------------------------------------------- mkdirp
\* mkdirp: provider.stat(directory) throws an error that is not
\* FileNotFound, and mkdirp throws it on.
mkdirpStatThrows(i) ==
    /\ i \in 1..Len(ops)
    /\ ops[i].pc = "mkdirpStat"
    /\ Becomes(thrown(World, i, "Unavailable"))
    /\ UNCHANGED <<quiet, faults>>

\* What is there before the call has an mtime of 500; provider.mkdir
\* gives 1000.
FolderBefore == [type |-> "dir", content |-> <<>>, mtime |-> 500]
FileBefore == [type |-> "file", content |-> <<1>>, mtime |-> 500]

\* What is at d, d/d and d/d/q before the call: folders down to some
\* depth, with or without a file below the last of them.
MkdirsFiles ==
    {[f \in Providers \X Paths |->
        CASE f[2] = <<"d">> -> t[1]
          [] f[2] = <<"d", "d">> -> t[2]
          [] f[2] = <<"d", "d", "q">> -> t[3]
          [] OTHER -> NoFile] :
      t \in {<<NoFile, NoFile, NoFile>>, <<FolderBefore, NoFile, NoFile>>,
             <<FolderBefore, FolderBefore, NoFile>>,
             <<FolderBefore, FolderBefore, FolderBefore>>,
             <<FileBefore, NoFile, NoFile>>, <<FolderBefore, FileBefore, NoFile>>,
             <<FolderBefore, FolderBefore, FileBefore>>}}

MkdirsUris ==
    {Uri("mem", TRUE, segs) : segs \in {<<"d">>, <<"d", "d">>, <<"d", "d", "q">>, <<"s">>,
                                        <<"s", "d", "q">>}}

\* mem is served by P1, which can write.
InitMkdirs ==
    /\ InitService([s \in Schemes |-> IF s = "mem" THEN "P1" ELSE "P2"])
    /\ capabilities = [p \in Providers |-> {FileReadWrite, PathCaseSensitive}]
    /\ files \in MkdirsFiles

\* One call in a run: createFolder, whose mkdirp is of the resource, or a
\* writeFile of mem:///q, whose mkdirp is of the root.
NextMkdirs ==
    \/ \E r \in MkdirsUris : ops = <<>> /\ createFolder(r)
    \/ /\ ops = <<>>
       /\ writeFile(Uri("mem", TRUE, <<"q">>), [kind |-> "buffer", chunks |-> << <<1>> >>],
                    NoOptions)
    \/ createFolderResolved(1)
    \/ StepsWriteFile(1)
    \/ mkdirpStatReturns(1)
    \/ mkdirpStatThrows(1)
    \/ mkdirReturns(1)
    \/ writeFileReturns(1, TRUE)
    \/ resolveReturns(1)

\* Every await of a call is answered in the end.
SpecMkdirs == InitMkdirs /\ [][NextMkdirs]_vars /\ WF_vars(NextMkdirs)

\* The directory and the directories above it, from the topmost down
Ancestors(segs) == [k \in 1..Len(segs) |-> SubSeq(segs, 1, k)]

\* The directories of a walk that provider.mkdir has made
MadeByMkdir(segs) ==
    {k \in 1..Len(segs) : files[<<"P1", SubSeq(segs, 1, k)>>] = Folder}

\* What the walk up finds first: the depth of the deepest of the
\* directories that is there, 0 when none is
FirstExisting(segs) ==
    LET there == {k \in 1..Len(segs) : files[<<"P1", SubSeq(segs, 1, k)>>].type # "none"}
    IN IF there = {} THEN 0 ELSE CHOOSE k \in there : \A j \in there : j <= k

\* mkdirp of the directory returned: all of it is there, and
\* provider.mkdir was called once for each directory that was missing,
\* from the topmost down, and for no other.
MkdirpMade(i, segs) ==
    LET made == ops[i].mkdirs
        kept == Len(segs) - Len(made) IN
    /\ kept >= 0
    /\ \A j \in 1..Len(made) : made[j] = Ancestors(segs)[kept + j]
    /\ MadeByMkdir(segs) = (kept + 1)..Len(segs)
    /\ \A k \in 1..kept : files[<<"P1", SubSeq(segs, 1, k)>>] = FolderBefore

\* mkdirp of the directory failed: provider.mkdir was never called, and
\* the walk up met a file if no stat failed.
MkdirpFailed(i, segs) ==
    /\ ops[i].mkdirs = <<>>
    /\ MadeByMkdir(segs) = {}
    /\ ops[i].result \in {"mkdirExistsError", "Unavailable"}
    /\ ops[i].result = "mkdirExistsError" =>
          /\ FirstExisting(segs) > 0
          /\ files[<<"P1", SubSeq(segs, 1, FirstExisting(segs))>>].type = "file"

MkdirpIsOver == ops # <<>> /\ ops[1].pc = "done"

\* C34: mkdirp(provider, directory) ends; it calls provider.mkdir once for
\* each missing directory from the topmost down and for no directory that
\* is there; it fails without a provider.mkdir when the first thing found
\* on the way up is not a directory or a stat fails with another error
\* than FileNotFound; for the root it does nothing.
C34_MkdirpMakesTheMissingOnce ==
    /\ [](\A i \in 1..Len(ops) :
            /\ (ops[i].kind = "createFolder" /\ ops[i].pc = "done") =>
                  IF ops[i].result = "ok" THEN MkdirpMade(i, ops[i].resource.segs)
                  ELSE MkdirpFailed(i, ops[i].resource.segs)
            /\ ops[i].kind = "writeFile" =>
                  /\ ops[i].mkdirs = <<>>
                  /\ ops[i].pc \notin {"mkdirpStat", "mkdir"}
                  /\ ops[i].pc = "done" => ops[i].result = "ok")
    /\ <>MkdirpIsOver

\* A createFolder of d/d/q made d/d and d/d/q below the d that was there.
C34_Witness ==
    \E i \in 1..Len(ops) :
        /\ ops[i].kind = "createFolder" /\ ops[i].pc = "done" /\ ops[i].result = "ok"
        /\ ops[i].mkdirs = << <<"d", "d">>, <<"d", "d", "q">> >>
        /\ files[<<"P1", <<"d">> >>] = FolderBefore

\* ------------------------------------------------------------------- resolve
\* The trie of doResolveFile holds the resource and the resolveTo uris.
\* TernarySearchTree.findSuperstr(key): the trie has an entry below the key
findSuperstr(trie, key) ==
    \E e \in trie : /\ e.scheme = key.scheme
                    /\ Len(e.segs) > Len(key.segs)
                    /\ isBelow(e.segs, key.segs)

\* TernarySearchTree.get(key): the key is an entry of the trie
trieGet(trie, key) == key \in trie

\* A recurse that takes only the entries of the trie themselves
recurse_entriesOnly(op, stat, siblings) ==
    LET trie == {op.resource} \cup op.options.resolveTo IN
    \/ trieGet(trie, stat.resource)
    \/ stat.isDirectory /\ op.options.resolveSingleChildDescendants /\ siblings = 1

\* The recurse callback of doResolveFile: a stat is resolved further when
\* the trie has an entry at it or below it, or when it is a directory, the
\* caller asked for single child descendants and it has no sibling;
\* siblings is 0 for the resource itself.
recurse(op, stat, siblings) ==
    LET trie == {op.resource} \cup op.options.resolveTo IN
    \/ findSuperstr(trie, stat.resource) \/ trieGet(trie, stat.resource)
    \/ stat.isDirectory /\ op.options.resolveSingleChildDescendants /\ siblings = 1

\* toFileStat(provider, resource, stat, siblings, resolveMetadata,
\* recurse): the file stat of the resource and, in it, those of its
\* children, here as the set of all of them.  The children of a directory
\* that recurse takes are read with provider.readdir and are none when that
\* fails; with resolveMetadata, a child whose provider.stat fails is left
\* out.
RECURSIVE toFileStat(_, _, _, _, _, _)
toFileStat(fs, op, resource, isDirectory, siblings, denied) ==
    LET stat == [resource |-> resource, isDirectory |-> isDirectory]
        entries == providerReaddir(fs, op.provider, resource)
        resolved == {e \in entries :
                        ~(op.options.resolveMetadata
                            /\ joinPath(resource, e.name) \in denied.stat)}
        fileStat == [resource |-> resource, isDirectory |-> isDirectory,
                     siblings |-> siblings, listed |-> FALSE, children |-> {}]
    IN IF ~(isDirectory /\ recurse(op, stat, siblings)) THEN {fileStat}
       ELSE IF resource \in denied.readdir THEN {[fileStat EXCEPT !.listed = TRUE]}
       ELSE {[fileStat EXCEPT !.listed = TRUE, !.children = {e.name : e \in resolved}]}
              \cup UNION {toFileStat(fs, op, joinPath(resource, e.name), e.isDirectory,
                                     Cardinality(entries), denied) : e \in resolved}

\* resolve(resource, options)
resolve(resource, options) ==
    /\ ops = <<>>
    /\ Becomes([World EXCEPT !.ops = <<[NewCall("resolve", resource, resource, NoInput,
                                                  NoOptions)
                                           EXCEPT !.options = options, !.pc = "lookup"]>>])
    /\ UNCHANGED <<quiet, faults>>

\* doResolveFile after withProvider: provider.stat(resource) is awaited.
resolveResolved(i) ==
    /\ i \in 1..Len(ops)
    /\ ops[i].kind = "resolve"
    /\ ops[i].pc = "lookup"
    /\ LET op == withProviderLookup(ops[i])
           w == [World EXCEPT !.ops[i] = op]
       IN Becomes(IF op.pc = "done" THEN w ELSE issue(w, i, "resolveStat"))
    /\ UNCHANGED <<quiet, faults>>

\* provider.stat(resource) returns: FILE_NOT_FOUND when nothing is there,
\* else toFileStat, with the readdir and stat calls of it that fail.
resolveStatReturns(i, denied) ==
    /\ i \in 1..Len(ops)
    /\ ops[i].pc = "resolveStat"
    /\ LET op == ops[i]
           stat == providerStat(files, op.provider, op.resource)
       IN Becomes(IF stat.type = "none" THEN settle(World, i, "FILE_NOT_FOUND")
                  ELSE settle([World EXCEPT
                                 !.ops[i].denied = denied,
                                 !.ops[i].fileStat =
                                     toFileStat(files, op, op.resource, stat.type = "dir",
                                                0, denied)], i, "ok"))
    /\ UNCHANGED <<quiet, faults>>

\* q is a file; d holds the file q, the empty folder s and the folder d
\* with the file q; s holds only the folder d, which holds only the file q.
ResolveFiles ==
    [f \in Providers \X Paths |->
        CASE f[2] \in {<<"d">>, <<"d", "d">>, <<"d", "s">>, <<"s">>, <<"s", "d">>} -> Folder
          [] f[2] \in {<<"q">>, <<"d", "q">>, <<"d", "d", "q">>, <<"s", "d", "q">>} ->
                 [type |-> "file", content |-> <<1>>, mtime |-> 1000]
          [] OTHER -> NoFile]

ResolveUris ==
    {Uri("mem", TRUE, segs) : segs \in {<<"q">>, <<"d">>, <<"s">>, <<"d", "d">>, <<"Q">>}}

ResolveTo ==
    {Uri("mem", TRUE, <<"d", "d">>), Uri("mem", TRUE, <<"d", "d", "q">>),
     Uri("mem", TRUE, <<"s", "d", "q">>), Uri("src", TRUE, <<"d", "s">>)}

ResolveOptions ==
    [resolveTo : SUBSET ResolveTo, resolveSingleChildDescendants : BOOLEAN,
     resolveMetadata : BOOLEAN]

\* The calls of the provider that fail in a resolve
ResolveDenied ==
    [readdir : SUBSET {Uri("mem", TRUE, <<"d", "d">>), Uri("mem", TRUE, <<"s">>)},
     stat : SUBSET {Uri("mem", TRUE, <<"d", "q">>), Uri("mem", TRUE, <<"s", "d">>)}]

InitResolve ==
    /\ InitService([s \in Schemes |-> IF s = "mem" THEN "P1" ELSE "P2"])
    /\ capabilities = [p \in Providers |-> {FileReadWrite, PathCaseSensitive}]
    /\ files = ResolveFiles

\* One resolve in a run.
NextResolve ==
    \/ \E r \in ResolveUris, o \in ResolveOptions : resolve(r, o)
    \/ resolveResolved(1)
    \/ \E denied \in ResolveDenied : resolveStatReturns(1, denied)

SpecResolve == InitResolve /\ [][NextResolve]_vars

\* The resolve targets of a call: its resource and its resolveTo
ResolveTargets(op) == {op.resource} \cup op.options.resolveTo

\* A resolve target is at the resource or below it
TargetAtOrBelow(op, resource) ==
    \E e \in ResolveTargets(op) :
        e.scheme = resource.scheme /\ isBelow(e.segs, resource.segs)

\* The file stat of a resource in the result of a call
StatOf(op, resource) == {s \in op.fileStat : s.resource = resource}

\* The children of a listed directory are what the provider has there, but
\* for the children whose stat failed, and none when its readdir failed;
\* each of them has a file stat in the result.
ChildrenOf(op, s) ==
    LET there == {e.name : e \in providerReaddir(files, op.provider, s.resource)}
    IN /\ s.children = IF s.resource \in op.denied.readdir THEN {}
                       ELSE {n \in there : ~(op.options.resolveMetadata
                                               /\ joinPath(s.resource, n) \in op.denied.stat)}
       /\ \A n \in s.children : StatOf(op, joinPath(s.resource, n)) # {}

\* C35: in the result of resolve(resource, options) a directory has its
\* children listed exactly when a resolve target (the resource or a uri of
\* resolveTo) is at it or below it, or resolveSingleChildDescendants is set
\* and the readdir of its parent returned one entry; with neither option
\* that is the resource only.  A readdir that fails gives no children, a
\* child whose stat fails is left out, and the resolve succeeds.
C35_ResolveExpandsTheTargets ==
    \A i \in 1..Len(ops) :
        (ops[i].kind = "resolve" /\ ops[i].pc = "done") =>
            LET op == ops[i] IN
            /\ op.result = "ok" <=> files[fileOf(op.provider, op.resource)].type # "none"
            /\ op.result = "ok" => StatOf(op, op.resource) # {}
            /\ \A s \in op.fileStat :
                  /\ s.listed <=>
                        /\ s.isDirectory
                        /\ \/ TargetAtOrBelow(op, s.resource)
                           \/ op.options.resolveSingleChildDescendants /\ s.siblings = 1
                  /\ s.listed => ChildrenOf(op, s)
                  /\ ~s.listed => s.children = {}
                  /\ (op.options.resolveTo = {} /\ ~op.options.resolveSingleChildDescendants)
                        => (s.listed => s.resource = op.resource)
                  /\ s.siblings = IF s.resource = op.resource THEN 0
                                  ELSE Cardinality(providerReaddir(files, op.provider,
                                                                   dirname(s.resource)))

\* A resolve of d to d/d/q with metadata, where the readdir of d/d and the
\* stat of d/q fail: d lists d and s, d/d lists nothing, d/s is not listed.
C35_Witness ==
    \E i \in 1..Len(ops) :
        /\ ops[i].kind = "resolve" /\ ops[i].pc = "done" /\ ops[i].result = "ok"
        /\ ops[i].resource = Uri("mem", TRUE, <<"d">>)
        /\ ops[i].options.resolveTo = {Uri("mem", TRUE, <<"d", "d", "q">>)}
        /\ \E s \in ops[i].fileStat :
              s.resource = ops[i].resource /\ s.listed /\ s.children = {"d", "s"}
        /\ \E s \in ops[i].fileStat :
              s.resource = Uri("mem", TRUE, <<"d", "d">>) /\ s.listed /\ s.children = {}
        /\ \E s \in ops[i].fileStat :
              s.resource = Uri("mem", TRUE, <<"d", "s">>) /\ ~s.listed

\* ---------------------------------------------------------- ensureWriteQueue
\* The call's task is outstanding in its queue or runs.
Pending(op) == op.task # "none" /\ (op.pc = "queued" \/ InTask(op))

\* C36: writeQueues has a queue under a key exactly while a task queued
\* under the key is outstanding or runs, and that queue is the one of those
\* tasks; a queue whose onFinished has fired has no task, so a later write
\* to the key gets a new queue.
C36_WriteQueuesHoldTheBusyKeys ==
    /\ \A key \in DOMAIN writeQueues :
          \E i \in 1..Len(ops) :
              Pending(ops[i]) /\ ops[i].key = key /\ ops[i].queue = writeQueues[key]
    /\ \A i \in 1..Len(ops) :
          Pending(ops[i]) =>
              /\ ops[i].key \in DOMAIN writeQueues
              /\ writeQueues[ops[i].key] = ops[i].queue
              /\ queues[ops[i].queue].finished = 0
    /\ \A q \in 1..Len(queues) : queues[q].finished <= 1

\* Two calls wrote to the same key one after the other, each with a queue
\* of its own, and no queue is left.
C36_Witness ==
    /\ DOMAIN writeQueues = {}
    /\ \E i, j \in 1..Len(ops) :
          /\ TaskOver(ops[i]) /\ TaskOver(ops[j])
          /\ ops[i].key = ops[j].key
          /\ ops[i].queue # ops[j].queue

\* ------------------------------------------------- the registration's handle
\* C37: the dispose of a registration handle whose provider is not the one
\* bound to its scheme (the handle was disposed before, or the scheme was
\* registered again since) leaves the bindings as they are and fires no
\* registration event.
C37_HandleUnregistersItsOwnProvider ==
    [][\A h \in 1..Len(registrations) :
          (/\ disposeRegistration(h)
           /\ provider[registrations[h].scheme] # registrations[h].provider)
              => /\ provider' = provider
                 /\ regEvents' = regEvents]_vars

\* ------------------------------------------- watchers and the service's end
\* C38: the disposable of a provider.watch call is disposed at most once,
\* whatever watch calls, disposals of handles and the service's dispose
\* come; and the dispose of a handle takes no record from the table but
\* the one the handle counts in.
C38_WatchersDisposedOnceAndByTheirOwn ==
    [][/\ \A w \in DOMAIN watchers' : watchers'[w].disposed <= 1
       /\ \A h \in 1..Len(watches) :
             disposeWatch(h) =>
                 \A k \in DOMAIN activeWatchers :
                     activeWatchers[k] # watches[h].watcher
                         => k \in DOMAIN activeWatchers']_vars

\* ---------------------------------------------------------------- doCopyFile
\* The capabilities withReadProvider takes for the source of a copy
ReadCapabilities ==
    {c \in SUBSET {FileReadWrite, FileOpenReadWriteClose, FileReadStream} : c # {}}

\* The capabilities withWriteProvider takes for the target of a copy
WriteCapabilities ==
    {c \in SUBSET {FileReadWrite, FileOpenReadWriteClose} : c # {}}

\* mem is served by P1, the target's provider, and src by P2, the
\* source's; the source is a file of three bytes.
InitCopy ==
    /\ InitService([s \in Schemes |-> IF s = "mem" THEN "P1" ELSE "P2"])
    /\ \E t \in WriteCapabilities, s \in ReadCapabilities :
          capabilities = [p \in Providers |->
                             (IF p = "P1" THEN t ELSE s) \cup {PathCaseSensitive}]
    /\ \E old \in {NoFile, OldFile} : files = FilesWith(old)

\* One doCopyFile in a run; provider calls may fail.
NextCopy ==
    \/ ops = <<>> /\ doCopyFile(SourceUri, Uri("mem", TRUE, <<"q">>))
    \/ \E ok \in BOOLEAN :
          \/ openSourceReturns(1, ok)
          \/ openReturns(1, ok)
          \/ readReturns(1, ok)
          \/ closeReturns(1, ok)
          \/ writeFileReturns(1, ok)
          \/ readFileReturns(1, ok)
          \/ readFileBufferedReturns(1, ok)
    \/ writeReturns(1, TRUE, ops[1].length - ops[1].totalBytesWritten)

SpecCopy == InitCopy /\ [][NextCopy]_vars

\* C39: whatever capabilities the source's provider has of those
\* withReadProvider takes and the target's of those withWriteProvider
\* takes, a doCopyFile that returns without an error has written the
\* source's bytes to the target.
C39_CopyWritesOrFails ==
    \A i \in 1..Len(ops) :
        (ops[i].kind = "doCopyFile" /\ ops[i].pc = "done" /\ ops[i].result = "ok") =>
            /\ files[fileOf(ops[i].provider, ops[i].resource)].type = "file"
            /\ files[fileOf(ops[i].provider, ops[i].resource)].content = Payload(ops[i])

\* ------------------------------------------------- ExtensionHostConnection
\* Renderer sockets one connection is given: the constructor's and those of
\* acceptReconnection
MaxSockets == 4

\* _getUnderlyingSocket(socket): a NodeSocket is read without web socket
\* frames, a WebSocketNodeSocket with them.
SocketClasses == {"NodeSocket", "WebSocketNodeSocket"}
getUnderlyingSocket(class) == [skipWebSocketFrames |-> class = "NodeSocket"]

\* new ExtensionHostConnection(..., socket, initialDataChunk): the socket is
\* kept, paused, for the extension host process that is not there yet.
\* Sockets are numbered as they are supplied; 0 is null.  The connection is
\* the one record of ops; sent lists the VSCODE_EXTHOST_IPC_SOCKET messages
\* sent to the process.
NewConnection(class) ==
    [kind |-> "ExtensionHostConnection", pc |-> "new",
     extensionHostProcess |-> FALSE, rendererConnection |-> 1,
     skipWebSocketFrames |-> getUnderlyingSocket(class).skipWebSocketFrames,
     listening |-> FALSE, supplied |-> <<class>>, sent |-> <<>>]

InitConnection ==
    /\ InitService([s \in Schemes |-> NoProvider])
    /\ capabilities = [p \in Providers |-> {}]
    /\ files = NoFiles

\* The connection is made for a renderer's socket.
construct(class) ==
    /\ ops = <<>>
    /\ ops' = <<NewConnection(class)>>
    /\ UNCHANGED <<regVars, watchVars, fsVars>>

Connected == ops # <<>> /\ ops[1].kind = "ExtensionHostConnection"

\* start(startParams) up to its first await, of getNLSConfiguration
start ==
    /\ Connected
    /\ ops[1].pc = "new"
    /\ ops' = [ops EXCEPT ![1].pc = "getNLSConfiguration"]
    /\ UNCHANGED <<regVars, watchVars, fsVars>>

\* getNLSConfiguration returns; getShellEnvironment is awaited.
getNLSConfigurationReturns ==
    /\ Connected
    /\ ops[1].pc = "getNLSConfiguration"
    /\ ops' = [ops EXCEPT ![1].pc = "getShellEnvironment"]
    /\ UNCHANGED <<regVars, watchVars, fsVars>>

\* getShellEnvironment returns: the extension host process is forked and
\* the listener for its messages is added; or an error is caught and
\* logged.
getShellEnvironmentReturns(ok) ==
    /\ Connected
    /\ ops[1].pc = "getShellEnvironment"
    /\ ops' = IF ok THEN [ops EXCEPT ![1].pc = "started",
                                     ![1].extensionHostProcess = TRUE,
                                     ![1].listening = TRUE]
              ELSE [ops EXCEPT ![1].pc = "errored"]
    /\ UNCHANGED <<regVars, watchVars, fsVars>>

\* acceptReconnection(remoteAddress, socket, initialDataChunk): without a
\* process the socket is kept in place of the one before; with one it is
\* sent to the process at once.
acceptReconnection(class) ==
    /\ Connected
    /\ Len(ops[1].supplied) < MaxSockets
    /\ LET socket == Len(ops[1].supplied) + 1
           skip == getUnderlyingSocket(class).skipWebSocketFrames
           c == [ops[1] EXCEPT !.supplied = Append(@, class)]
       IN ops' = IF ~c.extensionHostProcess
                   THEN <<[c EXCEPT !.rendererConnection = socket,
                                    !.skipWebSocketFrames = skip]>>
                   ELSE <<[c EXCEPT !.sent = Append(@, [socket |-> socket,
                                                        skipWebSocketFrames |-> skip])]>>
    /\ UNCHANGED <<regVars, watchVars, fsVars>>

\* The process sends VSCODE_EXTHOST_IPC_READY: the listener removes itself,
\* sends the socket that is kept and forgets it.
messageListener ==
    /\ Connected
    /\ ops[1].listening
    /\ ops' = [ops EXCEPT ![1].listening = FALSE,
                          ![1].pc = "ready",
                          ![1].sent = Append(@, [socket |-> ops[1].rendererConnection,
                                                 skipWebSocketFrames |->
                                                     ops[1].skipWebSocketFrames]),
                          ![1].rendererConnection = 0]
    /\ UNCHANGED <<regVars, watchVars, fsVars>>

NextConnection ==
    \/ \E class \in SocketClasses : construct(class)
    \/ start
    \/ getNLSConfigurationReturns
    \/ \E ok \in BOOLEAN : getShellEnvironmentReturns(ok)
    \/ \E class \in SocketClasses : acceptReconnection(class)
    \/ messageListener

SpecConnection == InitConnection /\ [][NextConnection]_vars

\* C40: the sockets are sent to the extension host process in the order
\* in which they were supplied, none twice, and once the process is ready
\* the last one sent is the last one supplied.
C40_SocketsSentInOrderNewestLast ==
    Connected =>
        LET sent == ops[1].sent IN
        /\ \A j, k \in 1..Len(sent) : j < k => sent[j].socket < sent[k].socket
        /\ ops[1].pc = "ready" => sent[Len(sent)].socket = Len(ops[1].supplied)

====
